---- MODULE Spec2Model ----
(***************************************************************************)
(* A model of the mapache backup engine: the Repository facade, the        *)
(* MasterIndex, the packers and the pack saver, the snapshot, restore and  *)
(* garbage collection commands, and the filesystem node streamer.          *)
(***************************************************************************)
EXTENDS Integers, Sequences, FiniteSets, TLC

VARIABLES
    backend,      \* the files of the storage backend: path -> [data, complete]
    index,        \* Repository.index: the MasterIndex
    packers,      \* Repository.data_packer / tree_packer
    pack_saver,   \* Repository.pack_saver: None, or the saver with its channel
    nonce,        \* the next nonce SecureStorage.encode draws
    thr,          \* the worker threads inside encode_and_save_blob
    main,         \* the command being run by the main thread
    fs,           \* the user's filesystem: the source file and the restore target
    hist          \* history of what the calls of the session did and returned

vars == <<backend, index, packers, pack_saver, nonce, thr, main, fs, hist>>

None == "None"

(***************************************************************************)
(* Bounds of the model.                                                    *)
(***************************************************************************)
NumWorkers == 2
MaxFileLen == 2
MaxCalls == 2
MaxSnapshots == 1
MaxGcRuns == 1

Workers == 1..NumWorkers
Bytes == {1, 2}
Mtimes == {1, 2}

(***************************************************************************)
(* Program constants (sizes are scaled down to the model's byte counts).   *)
(***************************************************************************)
BLOBS_PER_INDEX_FILE == 4
DEFAULT_PACK_SIZE == 20
MIN_PACK_SIZE_PERCENT == 5
MAX_CHUNK_SIZE == 1
ENVELOPE_OVERHEAD == 1
FILE_ID_BASE == 1000
TREE_ID_BASE == 100

PackSizes == {1, 3}
Tolerances == {0, 50}

(***************************************************************************)
(* Finite maps.                                                            *)
(***************************************************************************)
EmptyMap == [x \in {} |-> None]

Put(m, k, v) == [x \in (DOMAIN m) \cup {k} |-> IF x = k THEN v ELSE m[x]]

Drop(m, ks) == [x \in (DOMAIN m) \ ks |-> m[x]]

\* the element of a one-element set; Once({e(x) : x \in {v}}) is e(v) with v
\* evaluated a single time
Once(set) == CHOOSE x \in set : TRUE

Range(s) == {s[i] : i \in DOMAIN s}

RECURSIVE SumSeq(_)
SumSeq(s) == IF s = <<>> THEN 0 ELSE Head(s) + SumSeq(Tail(s))

RECURSIVE Concat(_)
Concat(ss) == IF ss = <<>> THEN <<>> ELSE Head(ss) \o Concat(Tail(ss))

(***************************************************************************)
(* IDs.  An ID is the hash of a byte string; the hash is collision free.   *)
(* A data chunk hashes to the number its bytes spell in base 3, a tree to  *)
(* a number computed from its nodes, and an encoded block (whose bytes     *)
(* differ for every nonce) to a number computed from its nonce.            *)
(***************************************************************************)
RECURSIVE HashDigits(_, _)
HashDigits(digits, base) ==
    IF digits = <<>> THEN 0
    ELSE base * HashDigits(SubSeq(digits, 1, Len(digits) - 1), base) + digits[Len(digits)]

HashBytes(bytes) == HashDigits(bytes, 3)

IdBase == 3 ^ MAX_CHUNK_SIZE

RECURSIVE HashNodes(_)
HashNodes(nodes) ==
    IF nodes = <<>> THEN 0
    ELSE LET n == nodes[Len(nodes)]
         IN 1000 * HashNodes(SubSeq(nodes, 1, Len(nodes) - 1))
            + 3 * (1 + HashDigits(n.blobs, IdBase)) + n.mtime

\* the nodes of a directory's tree are [name, tree], all names different: every
\* name and every name below it contributes a power of two
RECURSIVE HashDirNodes(_)
HashDirNodes(nodes) ==
    IF nodes = <<>> THEN 0
    ELSE 2 ^ (Head(nodes).name - 1)
         + (IF Head(nodes).tree = 0 THEN 0 ELSE Head(nodes).tree - TREE_ID_BASE)
         + HashDirNodes(Tail(nodes))

\* ID::from_content of a plaintext blob
ID_from_content(plain) ==
    IF plain.kind = "data" THEN HashBytes(plain.body)
    ELSE IF plain.kind = "dirtree" THEN TREE_ID_BASE + HashDirNodes(plain.body)
    ELSE TREE_ID_BASE + HashNodes(plain.body)

\* ID::from_content of an encoded block
ID_from_encoded(enc) == FILE_ID_BASE + enc.nonce

(***************************************************************************)
(* SecureStorage: encode draws a nonce and wraps the plaintext, decode     *)
(* unwraps it and fails on anything that is not a whole envelope.          *)
(***************************************************************************)
RawLen(plain) == IF plain.kind = "data" THEN Len(plain.body) ELSE 1 + Len(plain.body)

SecureStorage_encode(plain, n) ==
    [nonce |-> n, sealed |-> plain, len |-> RawLen(plain) + ENVELOPE_OVERHEAD]

\* bytes that are no envelope: a read that hit no blob boundary
Garbage == [nonce |-> 0, sealed |-> None, len |-> 0]

SecureStorage_decode(enc) ==
    IF enc.nonce = 0 THEN [ok |-> FALSE, plain |-> None]
    ELSE [ok |-> TRUE, plain |-> enc.sealed]

DataBlob(bytes) == [kind |-> "data", body |-> bytes]
TreeBlob(nodes) == [kind |-> "tree", body |-> nodes]

(***************************************************************************)
(* IndexSet (utils::indexset): a set that hands out a stable small index   *)
(* for every value.  A removed value leaves its slot empty.                *)
(***************************************************************************)
IndexSet_position(s, v) ==
    IF \E i \in DOMAIN s : s[i] = v THEN CHOOSE i \in DOMAIN s : s[i] = v ELSE 0

IndexSet_insert(s, v) ==
    IF IndexSet_position(s, v) # 0 THEN [set |-> s, at |-> IndexSet_position(s, v)]
    ELSE [set |-> Append(s, v), at |-> Len(s) + 1]

IndexSet_remove(s, v) == [i \in DOMAIN s |-> IF s[i] = v THEN 0 ELSE s[i]]

\* the values, in insertion order
IndexSet_iter(s) == SelectSeq(s, LAMBDA v : v # 0)

(***************************************************************************)
(* Index.                                                                  *)
(***************************************************************************)
Index_new ==
    [data_ids |-> EmptyMap, tree_ids |-> EmptyMap, pack_ids |-> <<>>,
     is_pending |-> TRUE, id |-> 0]

Index_finalize(idx) == [idx EXCEPT !.is_pending = FALSE]

Index_set_pending(idx) == [idx EXCEPT !.is_pending = TRUE, !.id = 0]

Index_num_blobs(idx) == Cardinality(DOMAIN idx.data_ids) + Cardinality(DOMAIN idx.tree_ids)

\* aged: create_time.elapsed() >= INDEX_FLUSH_TIMEOUT
Index_is_full(idx, aged) == Index_num_blobs(idx) >= BLOBS_PER_INDEX_FILE \/ aged

Index_contains(idx, id) == id \in DOMAIN idx.data_ids \/ id \in DOMAIN idx.tree_ids

Locate(idx, blob_type, location) ==
    [some |-> TRUE, pack_id |-> idx.pack_ids[location.pack_array_index],
     blob_type |-> blob_type, offset |-> location.offset,
     length |-> location.length, raw_length |-> location.raw_length]

NoEntry ==
    [some |-> FALSE, pack_id |-> 0, blob_type |-> None, offset |-> 0,
     length |-> 0, raw_length |-> 0]

Index_get(idx, id) ==
    IF id \in DOMAIN idx.data_ids THEN Locate(idx, "Data", idx.data_ids[id])
    ELSE IF id \in DOMAIN idx.tree_ids THEN Locate(idx, "Tree", idx.tree_ids[id])
    ELSE NoEntry

RECURSIVE Index_insert_blobs(_, _, _)
Index_insert_blobs(idx, pack_index, blobs) ==
    IF blobs = <<>> THEN idx
    ELSE LET blob == Head(blobs)
             location == [pack_array_index |-> pack_index, offset |-> blob.offset,
                          length |-> blob.length, raw_length |-> blob.raw_length]
             inserted ==
                 CASE blob.blob_type = "Data" ->
                          [idx EXCEPT !.data_ids = Put(@, blob.id, location)]
                   [] blob.blob_type = "Tree" ->
                          [idx EXCEPT !.tree_ids = Put(@, blob.id, location)]
                   [] OTHER -> idx
         IN Index_insert_blobs(inserted, pack_index, Tail(blobs))

Index_add_pack(idx, pack_id, packed_blob_descriptors) ==
    LET ins == IndexSet_insert(idx.pack_ids, pack_id)
    IN Index_insert_blobs([idx EXCEPT !.pack_ids = ins.set], ins.at, packed_blob_descriptors)

\* the blobs an index records in the pack at pack_array_index, as descriptors
BlobsOfType(idx, map, blob_type, pack_index) ==
    {[id |-> b, blob_type |-> blob_type, offset |-> map[b].offset,
      length |-> map[b].length, raw_length |-> map[b].raw_length] :
         b \in {x \in DOMAIN map : map[x].pack_array_index = pack_index}}

BlobsInPack(idx, pack_index) ==
    BlobsOfType(idx, idx.data_ids, "Data", pack_index)
        \cup BlobsOfType(idx, idx.tree_ids, "Tree", pack_index)

\* a set of descriptors as a sequence (a HashMap is iterated in some order)
RECURSIVE SetToSeq(_)
SetToSeq(set) ==
    IF set = {} THEN <<>>
    ELSE LET x == CHOOSE y \in set : TRUE IN <<x>> \o SetToSeq(set \ {x})

\* the packs of an index file, by pack ID
RECURSIVE SetToSeqBy(_)
SetToSeqBy(set) ==
    IF set = {} THEN <<>>
    ELSE LET x == CHOOSE y \in set : \A z \in set : y.id <= z.id
         IN <<x>> \o SetToSeqBy(set \ {x})

\* the IndexFile that finalize_and_save serializes
Index_to_index_file(idx) ==
    LET slots == SelectSeq([i \in DOMAIN idx.pack_ids |-> i],
                           LAMBDA i : idx.pack_ids[i] # 0 /\ BlobsInPack(idx, i) # {})
    IN [k \in DOMAIN slots |->
           [id |-> idx.pack_ids[slots[k]], blobs |-> BlobsInPack(idx, slots[k])]]

RECURSIVE Index_load_packs(_, _)
Index_load_packs(idx, file_packs) ==
    IF file_packs = <<>> THEN idx
    ELSE Index_load_packs(
             Index_add_pack(idx, Head(file_packs).id, SetToSeq(Head(file_packs).blobs)),
             Tail(file_packs))

Index_from_index_file(index_file) ==
    Index_load_packs([Index_new EXCEPT !.is_pending = FALSE], index_file)

Index_remove_pack(idx, target_pack_id) ==
    LET hit(map) == {b \in DOMAIN map : idx.pack_ids[map[b].pack_array_index] = target_pack_id}
        blobs_to_remove == hit(idx.data_ids) \cup hit(idx.tree_ids)
    IN [idx EXCEPT !.data_ids = Drop(@, blobs_to_remove),
                   !.tree_ids = Drop(@, blobs_to_remove),
                   !.pack_ids = IndexSet_remove(@, target_pack_id)]

(***************************************************************************)
(* The storage backend.  A path is <<directory, id, extension>>; a file    *)
(* that a write has created but not finished holds a strict prefix of its  *)
(* bytes (complete = FALSE).                                               *)
(***************************************************************************)
Backend_exists(b, path) == path \in DOMAIN b

Backend_write(b, path, data) == Put(b, path, [data |-> data, complete |-> TRUE])

\* what a write that has not finished leaves at the path
Backend_write_partial(b, path, data) == Put(b, path, [data |-> data, complete |-> FALSE])

Backend_rename(b, from, to) == Put(Drop(b, {from}), to, b[from])

Backend_remove_file(b, path) == Drop(b, {path})

Backend_read_dir(b, dir) == {path \in DOMAIN b : path[1] = dir}

PackLen(data) ==
    SumSeq([i \in DOMAIN data.blobs |-> data.blobs[i].length]) + data.trailer.len

\* seek_read of a pack file: the bytes at [offset, offset + length)
Backend_seek_read(b, path, offset, length) ==
    IF ~Backend_exists(b, path) \/ ~b[path].complete
    THEN [ok |-> FALSE, data |-> Garbage]
    ELSE LET blobs == b[path].data.blobs
             at == {i \in DOMAIN blobs : blobs[i].offset = offset /\ blobs[i].length = length}
         IN IF at # {} THEN [ok |-> TRUE, data |-> blobs[CHOOSE i \in at : TRUE].payload]
            ELSE IF offset + length <= PackLen(b[path].data)
                 THEN [ok |-> TRUE, data |-> Garbage]
                 ELSE [ok |-> FALSE, data |-> Garbage]

(***************************************************************************)
(* Packer.                                                                 *)
(***************************************************************************)
Packer_new == <<>>

Packer_size(p) == IF p = <<>> THEN 0 ELSE p[Len(p)].offset + p[Len(p)].length

Packer_add_blob_at_count(p, id, blob_type, payload, raw_length, encoded_length) ==
    Append(p, [id |-> id, blob_type |-> blob_type, offset |-> Len(p),
               length |-> encoded_length, raw_length |-> raw_length,
               payload |-> payload])

Packer_add_blob(p, id, blob_type, payload, raw_length, encoded_length) ==
    Append(p, [id |-> id, blob_type |-> blob_type, offset |-> Packer_size(p),
               length |-> encoded_length, raw_length |-> raw_length,
               payload |-> payload])

Descriptor(entry) ==
    [id |-> entry.id, blob_type |-> entry.blob_type, offset |-> entry.offset,
     length |-> entry.length, raw_length |-> entry.raw_length]

\* the hash of a pack's bytes, which end with the encoded trailer
PackHash(data) == ID_from_encoded(data.trailer)

Packer_flush(p, n) ==
    IF p = <<>> THEN [some |-> FALSE]
    ELSE LET descriptors == [i \in DOMAIN p |-> Descriptor(p[i])]
             trailer == SecureStorage_encode([kind |-> "trailer", body |-> descriptors], n)
             data == [blobs |-> p, trailer |-> trailer]
         IN [some |-> TRUE, id |-> PackHash(data), data |-> data,
             descriptors |-> descriptors, meta_size |-> trailer.len]

(***************************************************************************)
(* Repository: paths and files.  R is the repository as a record           *)
(* [backend, index, packers, pack_saver, nonce, max_packer_size].          *)
(***************************************************************************)
Repository_get_path(file_type, id) ==
    CASE file_type = "Pack" -> <<"objects", id, "">>
      [] file_type = "Snapshot" -> <<"snapshots", id, "">>
      [] file_type = "Index" -> <<"index", id, "">>

Repository_save_with_rename(b, path, data) ==
    LET tmp_path == <<path[1], path[2], "tmp">>
    IN Backend_rename(Backend_write(b, tmp_path, data), tmp_path, path)

Repository_save_file(R, file_type, plain) ==
    Once({Once({[R |-> [R EXCEPT !.nonce = @ + 1,
                                 !.backend = Repository_save_with_rename(
                                                 @, Repository_get_path(file_type, id), data)],
                 id |-> id, raw_size |-> RawLen(plain), encoded_size |-> data.len] :
                   id \in {ID_from_encoded(data)}}) :
             data \in {SecureStorage_encode(plain, R.nonce)}})

Repository_load_file(R, file_type, id) ==
    IF ~Backend_exists(R.backend, Repository_get_path(file_type, id))
       \/ ~R.backend[Repository_get_path(file_type, id)].complete
    THEN [ok |-> FALSE, plain |-> None]
    ELSE SecureStorage_decode(R.backend[Repository_get_path(file_type, id)].data)

Repository_load_from_pack(R, id, offset, length) ==
    LET read == Backend_seek_read(R.backend, Repository_get_path("Pack", id), offset, length)
    IN IF read.ok THEN SecureStorage_decode(read.data) ELSE [ok |-> FALSE, plain |-> None]

(***************************************************************************)
(* MasterIndex.                                                            *)
(***************************************************************************)
MasterIndex_new == [indices |-> <<>>, pending_blobs |-> {}]

MasterIndex_contains(mi, id) ==
    \/ \E i \in DOMAIN mi.indices :
           ~mi.indices[i].is_pending /\ Index_contains(mi.indices[i], id)
    \/ id \in mi.pending_blobs

MasterIndex_get(mi, id) ==
    LET found == {i \in DOMAIN mi.indices :
                      ~mi.indices[i].is_pending /\ Index_contains(mi.indices[i], id)}
    IN IF found = {} THEN NoEntry
       ELSE Index_get(mi.indices[CHOOSE i \in found : \A j \in found : i <= j], id)

MasterIndex_add_index(mi, idx) == [mi EXCEPT !.indices = Append(@, idx)]

MasterIndex_add_pending_blob(mi, id) ==
    [mi |-> [mi EXCEPT !.pending_blobs = @ \cup {id}], inserted |-> id \notin mi.pending_blobs]

Index_finalize_and_save(R, i) ==
    Once({IF DOMAIN idx.data_ids = {} /\ DOMAIN idx.tree_ids = {}
          THEN [R |-> [R EXCEPT !.index.indices[i] = idx], raw |-> 0, encoded |-> 0]
          ELSE Once({[R |-> [saved.R EXCEPT !.index.indices[i].id = saved.id],
                      raw |-> saved.raw_size, encoded |-> saved.encoded_size] :
                        saved \in {Repository_save_file(
                                       [R EXCEPT !.index.indices[i] = idx], "Index",
                                       [kind |-> "index", body |-> Index_to_index_file(idx)])}}) :
             idx \in {Index_finalize(R.index.indices[i])}})

MasterIndex_add_pack(R, pack_id, packed_blob_descriptors, aged) ==
    LET ids == {packed_blob_descriptors[k].id : k \in DOMAIN packed_blob_descriptors}
        pending == {i \in DOMAIN R.index.indices : R.index.indices[i].is_pending}
    IN Once({IF pending # {}
             THEN Once({Once({IF Index_is_full(R2.index.indices[i], aged)
                              THEN Index_finalize_and_save(R2, i)
                              ELSE [R |-> R2, raw |-> 0, encoded |-> 0] :
                                 R2 \in {[R1 EXCEPT !.index.indices[i] =
                                             Index_add_pack(@, pack_id,
                                                            packed_blob_descriptors)]}}) :
                           i \in {CHOOSE k \in pending : \A j \in pending : k <= j}})
             ELSE [R |-> [R1 EXCEPT !.index.indices =
                                        Append(@, Index_add_pack(Index_new, pack_id,
                                                                 packed_blob_descriptors))],
                   raw |-> 0, encoded |-> 0] :
                R1 \in {[R EXCEPT !.index.pending_blobs = @ \ ids]}})

RECURSIVE MasterIndex_save_from(_, _)
MasterIndex_save_from(R, i) ==
    IF i > Len(R.index.indices) THEN [R |-> R, raw |-> 0, encoded |-> 0]
    ELSE IF R.index.indices[i].is_pending
         THEN Once({Once({[R |-> rest.R, raw |-> one.raw + rest.raw,
                            encoded |-> one.encoded + rest.encoded] :
                              rest \in {MasterIndex_save_from(one.R, i + 1)}}) :
                       one \in {Index_finalize_and_save(R, i)}})
         ELSE MasterIndex_save_from(R, i + 1)

\* a save that leaves the pending Indices as they are
MasterIndex_save_nothing(R) == [R |-> R, raw |-> 0, encoded |-> 0]

MasterIndex_save(R) == MasterIndex_save_from(R, 1)

MasterIndex_ids(mi) ==
    {mi.indices[i].id : i \in {k \in DOMAIN mi.indices :
                                   ~mi.indices[k].is_pending /\ mi.indices[k].id # 0}}

\* the (pack_array_index, pack id) pairs of an index, in the order its pack set iterates
PackSlots(idx) ==
    SelectSeq([i \in DOMAIN idx.pack_ids |-> [slot |-> i, pack_id |-> idx.pack_ids[i]]],
              LAMBDA e : e.pack_id # 0)

RECURSIVE MergePacks(_, _, _)
MergePacks(m, idx, slots) ==
    IF slots = <<>> THEN m
    ELSE LET pack_id == Head(slots).pack_id
         IN IF pack_id \in m.pack_ids THEN MergePacks(m, idx, Tail(slots))
            ELSE LET full == Index_is_full(m.current_index, FALSE)
                     current == IF full THEN Index_new ELSE m.current_index
                     descriptors == SetToSeq(BlobsInPack(idx, Head(slots).slot))
                 IN MergePacks(
                        [new_indices |-> IF full THEN Append(m.new_indices, m.current_index)
                                         ELSE m.new_indices,
                         pack_ids |-> m.pack_ids \cup {pack_id},
                         current_index |-> Index_add_pack(current, pack_id, descriptors)],
                        idx, Tail(slots))

RECURSIVE MergeIndices(_, _)
MergeIndices(m, indices) ==
    IF indices = <<>> THEN m
    ELSE MergeIndices(MergePacks(m, Head(indices), PackSlots(Head(indices))), Tail(indices))

Index_is_empty(idx) == IndexSet_iter(idx.pack_ids) = <<>>

MasterIndex_merge_index(mi) ==
    LET m == MergeIndices([new_indices |-> <<>>, pack_ids |-> {},
                           current_index |-> Index_new], mi.indices)
    IN [mi EXCEPT !.indices = IF Index_is_empty(m.current_index) THEN m.new_indices
                              ELSE Append(m.new_indices, m.current_index)]

RECURSIVE Index_remove_packs(_, _)
Index_remove_packs(idx, packs) ==
    IF packs = {} THEN idx
    ELSE LET pack_id == CHOOSE x \in packs : TRUE
         IN Index_remove_packs(Index_remove_pack(idx, pack_id), packs \ {pack_id})

\* cleanup(Some(packs_to_remove))
MasterIndex_cleanup(mi, packs_to_remove) ==
    MasterIndex_merge_index(
        [mi EXCEPT !.indices =
            [i \in DOMAIN @ |-> Index_remove_packs(Index_set_pending(@[i]), packs_to_remove)]])

(***************************************************************************)
(* Repository: blobs.                                                      *)
(***************************************************************************)
Repository_load_blob(R, id) ==
    LET entry == MasterIndex_get(R.index, id)
    IN IF entry.some THEN Repository_load_from_pack(R, entry.pack_id, entry.offset, entry.length)
       ELSE [ok |-> FALSE, plain |-> None]

PackSaver_new == [some |-> TRUE, queue |-> <<>>, writing |-> <<>>]

PackSaver_none == [some |-> FALSE, queue |-> <<>>, writing |-> <<>>]

PackSaver_save_pack(saver, data, id) == [saver EXCEPT !.queue = Append(@, [id |-> id, data |-> data])]

Repository_flush_packer(R, blob_type, aged) ==
    LET R1 == [R EXCEPT !.packers[blob_type] = Packer_new, !.nonce = @ + 1]
    IN Once({IF ~flushed_pack.some THEN [ok |-> TRUE, R |-> R, raw |-> 0, encoded |-> 0]
             ELSE IF ~R.pack_saver.some THEN [ok |-> FALSE, R |-> R1, raw |-> 0, encoded |-> 0]
             ELSE Once({[ok |-> TRUE, R |-> added.R,
                         raw |-> flushed_pack.meta_size + added.raw,
                         encoded |-> flushed_pack.meta_size + added.encoded] :
                           added \in {MasterIndex_add_pack(
                                          [R1 EXCEPT !.pack_saver =
                                              PackSaver_save_pack(@, flushed_pack.data,
                                                                  flushed_pack.id)],
                                          flushed_pack.id, flushed_pack.descriptors, aged)}}) :
                flushed_pack \in {Packer_flush(R.packers[blob_type], R.nonce)}})

\* the raw total takes the second (encoded) component of the data packer's sizes
Repository_flush(R, aged_data, aged_tree) ==
    Once({IF ~data.ok THEN data
          ELSE Once({IF ~tree.ok THEN tree
                     ELSE Once({[ok |-> TRUE, R |-> saved.R,
                                 raw |-> data.encoded + tree.raw + saved.raw,
                                 encoded |-> data.encoded + tree.encoded + saved.encoded] :
                                   saved \in {MasterIndex_save(tree.R)}}) :
                        tree \in {Repository_flush_packer(data.R, "Tree", aged_tree)}}) :
             data \in {Repository_flush_packer(R, "Data", aged_data)}})

\* the orders in which read_dir may list a set of files
Orders(S) == {o \in [1..Cardinality(S) -> S] : \A i, j \in DOMAIN o : o[i] = o[j] => i = j}

RECURSIVE Repository_load_master_index(_, _, _)
Repository_load_master_index(b, mi, files) ==
    IF files = <<>> THEN [ok |-> TRUE, index |-> mi]
    ELSE LET file == Head(files)
             decoded == SecureStorage_decode(b[file].data)
         IN IF file[3] # "" \/ ~b[file].complete \/ ~decoded.ok
            THEN [ok |-> FALSE, index |-> mi]
            ELSE Repository_load_master_index(
                     b,
                     MasterIndex_add_index(
                         mi, [Index_from_index_file(decoded.plain.body) EXCEPT !.id = file[2]]),
                     Tail(files))

(***************************************************************************)
(* The running program.  Repo is the Repository the threads share; a       *)
(* thread inside encode_and_save_blob is at "encode" after it has reserved *)
(* the ID and at "check" after it has added the blob to the packer.        *)
(***************************************************************************)
Threads == 0..NumWorkers

Repo ==
    [backend |-> backend, index |-> index, packers |-> packers,
     pack_saver |-> pack_saver, nonce |-> nonce, max_packer_size |-> main.pack_size]

\* the backend of a dry run keeps the files as they are and drops what is written
DryBackend_through(written) == written

DryBackend(written) == IF main.dry_run THEN backend ELSE written

Store(R) ==
    /\ backend' = DryBackend(R.backend)
    /\ index' = R.index
    /\ packers' = R.packers
    /\ pack_saver' = R.pack_saver
    /\ nonce' = R.nonce

NoCall == [blob_type |-> "Data", data |-> DataBlob(<<>>), save_id |-> 0]

ThreadIdle == [pc |-> "idle", call |-> NoCall, id |-> 0, job |-> <<>>, rets |-> <<>>]

\* the thread's call returns: (id, sizes) when ok, an error otherwise
Return(t, id, plain, ok, mi) ==
    /\ thr' = [thr EXCEPT ![t].pc = "idle", ![t].call = NoCall, ![t].id = 0,
                          ![t].rets = Append(@, [id |-> id, ok |-> ok])]
    /\ hist' = [hist EXCEPT !.returned = @ \cup {[id |-> id, plain |-> plain, ok |-> ok,
                                                  contained |-> MasterIndex_contains(mi, id)]}]

\* encode_and_save_blob up to the release of the index lock
ESB_reserve(t, call, rest) ==
    LET id == IF call.save_id = 0 THEN ID_from_content(call.data) ELSE call.save_id
        reserved == MasterIndex_add_pending_blob(index, id)
        blob_exists == MasterIndex_contains(index, id) \/ ~reserved.inserted
    IN /\ thr[t].pc = "idle"
       /\ IF blob_exists
          THEN /\ thr' = [thr EXCEPT ![t].job = rest,
                                     ![t].rets = Append(@, [id |-> id, ok |-> TRUE])]
               /\ hist' = [hist EXCEPT !.returned = @ \cup
                              {[id |-> id, plain |-> call.data, ok |-> TRUE,
                                contained |-> MasterIndex_contains(index, id)]}]
               /\ UNCHANGED index
          ELSE /\ thr' = [thr EXCEPT ![t].pc = "encode", ![t].call = call, ![t].id = id,
                                     ![t].job = rest]
               /\ index' = reserved.mi
               /\ UNCHANGED hist
       /\ UNCHANGED <<backend, packers, pack_saver, nonce, main, fs>>

\* the envelope encoding and the packer's add_blob
ESB_add(t) ==
    LET call == thr[t].call
        data == SecureStorage_encode(call.data, nonce)
    IN /\ thr[t].pc = "encode"
       /\ nonce' = nonce + 1
       /\ packers' = [packers EXCEPT ![call.blob_type] =
                          Packer_add_blob(@, thr[t].id, call.blob_type, data,
                                          RawLen(call.data), data.len)]
       /\ thr' = [thr EXCEPT ![t].pc = "check"]
       /\ hist' = [hist EXCEPT !.added = @ \cup {thr[t].id},
                               !.readded = @ \cup ({thr[t].id} \cap hist.added)]
       /\ UNCHANGED <<backend, index, pack_saver, main, fs>>

\* the size check and the flush of the packer that crossed max_packer_size
ESB_check(t, aged) ==
    LET call == thr[t].call
    IN /\ thr[t].pc = "check"
       /\ IF Packer_size(packers[call.blob_type]) > main.pack_size
          THEN \E flushed \in {Repository_flush_packer(Repo, call.blob_type, aged)} :
                  /\ Store(flushed.R)
                  /\ Return(t, thr[t].id, call.data, flushed.ok, flushed.R.index)
          ELSE /\ aged = FALSE
               /\ UNCHANGED <<backend, index, packers, pack_saver, nonce>>
               /\ Return(t, thr[t].id, call.data, TRUE, index)
       /\ UNCHANGED <<main, fs>>

(***************************************************************************)
(* The pack saver's worker: it takes a pack from the channel and runs the  *)
(* callback of init_pack_saver, which writes the pack at its final path    *)
(* and logs a failed write.                                                *)
(***************************************************************************)
SaverTake ==
    /\ pack_saver.some
    /\ pack_saver.queue # <<>>
    /\ pack_saver.writing = <<>>
    /\ pack_saver' = [pack_saver EXCEPT !.queue = Tail(@),
                                       !.writing = <<Head(pack_saver.queue)>>]
    /\ backend' = DryBackend(Backend_write_partial(
                      backend, Repository_get_path("Pack", Head(pack_saver.queue).id),
                      Head(pack_saver.queue).data))
    /\ UNCHANGED <<index, packers, nonce, thr, main, fs, hist>>

SaverWritten ==
    /\ pack_saver.writing # <<>>
    /\ backend' = DryBackend(Backend_write(backend,
                                            Repository_get_path("Pack", pack_saver.writing[1].id),
                                            pack_saver.writing[1].data))
    /\ pack_saver' = [pack_saver EXCEPT !.writing = <<>>]
    /\ UNCHANGED <<index, packers, nonce, thr, main, fs, hist>>

\* backend.write returns an error: the callback logs it and returns (the
\* backend fails one write at most)
SaverWriteError ==
    /\ pack_saver.writing # <<>>
    /\ ~hist.faulted
    /\ pack_saver' = [pack_saver EXCEPT !.writing = <<>>]
    /\ hist' = [hist EXCEPT !.write_failed = TRUE, !.faulted = TRUE]
    /\ UNCHANGED <<backend, index, packers, nonce, thr, main, fs>>

(***************************************************************************)
(* SpecBlob: worker threads store blobs through encode_and_save_blob while *)
(* the pack saver runs; the main thread then flushes and finalizes.        *)
(***************************************************************************)
NoFile == [exists |-> FALSE, data |-> <<>>, mtime |-> 0]

HistInit ==
    [returned |-> {}, added |-> {}, readded |-> {}, write_failed |-> FALSE,
     faulted |-> FALSE, gc |-> "none", tolerance |-> 0, resolvable |-> {},
     snapshots |-> {}, restored |-> {}]

NoRuns == [snapshot |-> 0, write |-> 0, forget |-> 0, gc |-> 0]

\* no command is running: the repository is closed
NoPlan ==
    [referenced_blobs |-> {}, referenced_packs |-> {}, obsolete_packs |-> {},
     small_packs |-> {}, tolerated_packs |-> {}, unused_packs |-> {}, index_ids |-> {}]

MainClosed ==
    [pc |-> "closed", cmd |-> "none", pack_size |-> 1, flush_ok |-> FALSE,
     dry_run |-> FALSE, runs |-> NoRuns, plan |-> NoPlan]

InitBlob ==
    /\ backend = EmptyMap
    /\ index = MasterIndex_new
    /\ packers = [Data |-> Packer_new, Tree |-> Packer_new]
    /\ pack_saver = PackSaver_none
    /\ nonce = 1
    /\ thr = [t \in Threads |-> ThreadIdle]
    /\ main \in {[MainClosed EXCEPT !.pc = "start", !.cmd = "blob", !.pack_size = size] :
                    size \in PackSizes}
    /\ fs = [src |-> NoFile, dst |-> NoFile]
    /\ hist = HistInit

InitPackSaver ==
    /\ main.pc = "start"
    /\ pack_saver' = PackSaver_new
    /\ main' = [main EXCEPT !.pc = "run"]
    /\ UNCHANGED <<backend, index, packers, nonce, thr, fs, hist>>

BlobStore(t, bytes) ==
    /\ main.pc = "run"
    /\ Len(thr[t].rets) < MaxCalls
    /\ ESB_reserve(t, [blob_type |-> "Data", data |-> DataBlob(bytes), save_id |-> 0], <<>>)

BlobFlush(aged_data, aged_tree) ==
    /\ main.pc = "run"
    /\ hist.added # {}
    /\ \A t \in Threads : thr[t].pc = "idle"
    /\ \E flushed \in {Repository_flush(Repo, aged_data, aged_tree)} :
           /\ Store(flushed.R)
           /\ main' = [main EXCEPT !.pc = "flushed", !.flush_ok = flushed.ok]
    /\ UNCHANGED <<thr, fs, hist>>

\* finalize_pack_saver: finish() returns when the workers have drained the channel
FinalizePackSaver ==
    /\ main.pc = "flushed"
    /\ pack_saver.queue = <<>>
    /\ pack_saver.writing = <<>>
    /\ pack_saver' = PackSaver_none
    /\ main' = [main EXCEPT !.pc = "finished"]
    /\ UNCHANGED <<backend, index, packers, nonce, thr, fs, hist>>

NextBlob ==
    \/ InitPackSaver
    \/ \E t \in Workers, bytes \in {<<b>> : b \in Bytes} : BlobStore(t, bytes)
    \/ \E t \in Workers : ESB_add(t)
    \/ \E t \in Workers, aged \in BOOLEAN : ESB_check(t, aged)
    \/ \E aged_data, aged_tree \in BOOLEAN : BlobFlush(aged_data, aged_tree)
    \/ FinalizePackSaver
    \/ SaverTake
    \/ SaverWritten
    \/ SaverWriteError

SpecBlob == InitBlob /\ [][NextBlob]_vars

(***************************************************************************)
(* The snapshot command: open the repository, chunk the source file on a   *)
(* reader thread, store the tree from the main thread, flush, finalize the *)
(* pack saver and save the snapshot file.                                  *)
(***************************************************************************)
Now == 0

Contents == UNION {[1..n -> Bytes] : n \in 0..MaxFileLen}

\* the chunker cuts a file into chunks of at most MAX_CHUNK_SIZE bytes
RECURSIVE Chunks(_)
Chunks(data) ==
    IF Len(data) <= MAX_CHUNK_SIZE THEN (IF data = <<>> THEN <<>> ELSE <<data>>)
    ELSE <<SubSeq(data, 1, MAX_CHUNK_SIZE)>> \o Chunks(SubSeq(data, MAX_CHUNK_SIZE + 1, Len(data)))

IndexFiles == Backend_read_dir(backend, "index")

Snapshots == {path[2] : path \in Backend_read_dir(backend, "snapshots")}

\* try_open: a fresh Repository whose master index holds the index files
OpenRepository(order) ==
    \E loaded \in {Repository_load_master_index(backend, MasterIndex_new, order)} :
        /\ loaded.ok
        /\ index' = loaded.index
        /\ packers' = [Data |-> Packer_new, Tree |-> Packer_new]
        /\ pack_saver' = PackSaver_none

\* the process exits: the files and the nonce source outlive the Repository
Close(R) ==
    /\ backend' = DryBackend(R.backend)
    /\ nonce' = R.nonce
    /\ index' = MasterIndex_new
    /\ packers' = [Data |-> Packer_new, Tree |-> Packer_new]
    /\ pack_saver' = PackSaver_none

\* the user rewrites the source file after a snapshot
UserWrite(data) ==
    /\ main.pc = "closed"
    /\ main.runs.write < main.runs.snapshot
    /\ ~fs.dst.exists
    /\ data # fs.src.data
    /\ fs' = [fs EXCEPT !.src = [exists |-> TRUE, data |-> data, mtime |-> fs.src.mtime + 1]]
    /\ main' = [main EXCEPT !.runs.write = @ + 1]
    /\ UNCHANGED <<backend, index, packers, pack_saver, nonce, thr, hist>>

SnapshotStart(size, order, limit, dry_run) ==
    /\ main.pc = "closed"
    /\ main.runs.snapshot < limit
    /\ fs.src.exists
    /\ ~fs.dst.exists
    /\ OpenRepository(order)
    /\ main' = [main EXCEPT !.pc = "start", !.cmd = "snapshot", !.pack_size = size,
                            !.dry_run = dry_run, !.runs.snapshot = @ + 1]
    /\ thr' = [t \in Threads |-> ThreadIdle]
    /\ hist' = [hist EXCEPT !.returned = {}, !.added = {}, !.readded = {},
                            !.write_failed = FALSE]
    /\ UNCHANGED <<backend, nonce, fs>>

\* the file is submitted to the read pool
SnapshotRead ==
    /\ main.pc = "run"
    /\ main.cmd = "snapshot"
    /\ thr' = [thr EXCEPT ![1].job =
                  [i \in DOMAIN Chunks(fs.src.data) |->
                      [blob_type |-> "Data", data |-> DataBlob(Chunks(fs.src.data)[i]),
                       save_id |-> 0]]]
    /\ main' = [main EXCEPT !.pc = "read"]
    /\ UNCHANGED <<backend, index, packers, pack_saver, nonce, fs, hist>>

\* a thread takes the next call of its job
WorkerNext(t) ==
    /\ main.cmd = "snapshot"
    /\ thr[t].job # <<>>
    /\ ESB_reserve(t, Head(thr[t].job), Tail(thr[t].job))

ThreadDone(t) == thr[t].pc = "idle" /\ thr[t].job = <<>>

\* the directory closes: its tree is serialized and stored
SnapshotTree ==
    LET node == [name |-> "f", blobs |-> [i \in DOMAIN thr[1].rets |-> thr[1].rets[i].id],
                 mtime |-> fs.src.mtime]
    IN /\ main.pc = "read"
       /\ main.cmd = "snapshot"
       /\ ThreadDone(1)
       /\ thr' = [thr EXCEPT ![0].job = <<[blob_type |-> "Tree", data |-> TreeBlob(<<node>>),
                                          save_id |-> 0]>>]
       /\ main' = [main EXCEPT !.pc = "tree"]
       /\ UNCHANGED <<backend, index, packers, pack_saver, nonce, fs, hist>>

SnapshotFlush(aged_data, aged_tree) ==
    /\ main.pc = "tree"
    /\ ThreadDone(0)
    /\ thr[0].rets # <<>>
    /\ \E flushed \in {Repository_flush(Repo, aged_data, aged_tree)} :
           /\ Store(flushed.R)
           /\ main' = [main EXCEPT !.pc = "flushed", !.flush_ok = flushed.ok]
    /\ UNCHANGED <<thr, fs, hist>>

\* cmd_snapshot saves the snapshot the archiver returned
SnapshotSave ==
    /\ main.pc = "finished"
    /\ main.cmd = "snapshot"
    /\ \E saved \in {Repository_save_file(
                         Repo, "Snapshot",
                         [kind |-> "snapshot", body |-> <<[tree |-> thr[0].rets[1].id]>>])} :
           /\ Close(saved.R)
           /\ hist' = [hist EXCEPT !.snapshots = @ \cup
                           {[id |-> saved.id, data |-> fs.src.data, mtime |-> fs.src.mtime,
                             write_failed |-> hist.write_failed, dry_run |-> main.dry_run]}]
    /\ main' = [main EXCEPT !.pc = "closed", !.cmd = "none", !.dry_run = FALSE]
    /\ thr' = [t \in Threads |-> ThreadIdle]
    /\ UNCHANGED fs

(***************************************************************************)
(* The restore command: restore_node_to_path for the file node of the      *)
(* snapshot's tree.                                                        *)
(***************************************************************************)
\* OpenOptions create + truncate + write
File_open_truncate(file) == [exists |-> TRUE, data |-> <<>>, mtime |-> Now]

File_write_all_front(file, chunk) == [file EXCEPT !.data = chunk \o @, !.mtime = Now]

File_write_all(file, chunk) == [file EXCEPT !.data = @ \o chunk, !.mtime = Now]

restore_times(file, mtime) == [file EXCEPT !.mtime = mtime]

RECURSIVE write_blocks(_, _, _)
write_blocks(R, blocks, file) ==
    IF blocks = <<>> THEN [ok |-> TRUE, file |-> file]
    ELSE LET chunk_data == Repository_load_blob(R, Head(blocks))
         IN IF ~chunk_data.ok THEN [ok |-> FALSE, file |-> file]
            ELSE write_blocks(R, Tail(blocks), File_write_all(file, chunk_data.plain.body))

restore_node_to_path(R, node, dst_file) ==
    LET written == write_blocks(R, node.blobs, File_open_truncate(dst_file))
    IN IF written.ok THEN [ok |-> TRUE, file |-> restore_times(written.file, node.mtime)]
       ELSE written

\* load the snapshot, stream its tree and restore the node
restore_snapshot(R, id, dst_file) ==
    LET snapshot == Repository_load_file(R, "Snapshot", id)
    IN IF ~snapshot.ok THEN [ok |-> FALSE, file |-> dst_file]
       ELSE LET tree == Repository_load_blob(R, snapshot.plain.body[1].tree)
            IN IF ~tree.ok THEN [ok |-> FALSE, file |-> dst_file]
               ELSE restore_node_to_path(R, tree.plain.body[1], dst_file)

\* A restore into an empty directory.  It does not change the repository: the
\* next command starts after the user has cleared the restore target.
RestoreRun(id, order) ==
    /\ main.pc = "closed"
    /\ ~fs.dst.exists
    /\ \E loaded \in {Repository_load_master_index(backend, MasterIndex_new, order)} :
           /\ loaded.ok
           /\ \E restored \in {restore_snapshot([Repo EXCEPT !.index = loaded.index],
                                                id, fs.dst)} :
                  /\ fs' = [fs EXCEPT !.dst = restored.file]
                  /\ hist' = [hist EXCEPT !.restored =
                                  {[snapshot |-> id, ok |-> restored.ok,
                                    data |-> restored.file.data,
                                    mtime |-> restored.file.mtime]}]
    /\ UNCHANGED <<backend, index, packers, pack_saver, nonce, thr, main>>

UserClean ==
    /\ main.pc = "closed"
    /\ fs.dst.exists
    /\ fs' = [fs EXCEPT !.dst = NoFile]
    /\ hist' = [hist EXCEPT !.restored = {}]
    /\ UNCHANGED <<backend, index, packers, pack_saver, nonce, thr, main>>

(***************************************************************************)
(* SpecSnap: snapshots of the source file and restores of snapshots, in    *)
(* sessions shorter than the index flush timeout.  hist.restored holds the *)
(* outcome of the latest restore.                                          *)
(***************************************************************************)
InitSnap ==
    /\ backend = EmptyMap
    /\ index = MasterIndex_new
    /\ packers = [Data |-> Packer_new, Tree |-> Packer_new]
    /\ pack_saver = PackSaver_none
    /\ nonce = 1
    /\ thr = [t \in Threads |-> ThreadIdle]
    /\ main = MainClosed
    /\ fs \in {[src |-> [exists |-> TRUE, data |-> data, mtime |-> 1], dst |-> NoFile] :
                  data \in Contents}
    /\ hist = HistInit

NextSnap ==
    \/ \E data \in Contents : UserWrite(data)
    \/ \E size \in PackSizes, order \in Orders(IndexFiles) : SnapshotStart(size, order, MaxSnapshots, FALSE)
    \/ InitPackSaver
    \/ SnapshotRead
    \/ \E t \in Threads : WorkerNext(t)
    \/ \E t \in Threads : ESB_add(t)
    \/ \E t \in Threads : ESB_check(t, FALSE)
    \/ SnapshotTree
    \/ SnapshotFlush(FALSE, FALSE)
    \/ FinalizePackSaver
    \/ SnapshotSave
    \/ SaverTake
    \/ SaverWritten
    \/ SaverWriteError
    \/ \E id \in Snapshots, order \in Orders(IndexFiles) : RestoreRun(id, order)
    \/ UserClean

SpecSnap == InitSnap /\ [][NextSnap]_vars

(***************************************************************************)
(* SpecDry: snapshots with and without dry_run, each followed by restores  *)
(* of the latest snapshot.                                                 *)
(***************************************************************************)
\* the snapshot written last
latest_snapshot == CHOOSE id \in Snapshots : \A other \in Snapshots : other <= id

NoRestore == [snapshot |-> 0, ok |-> FALSE, data |-> <<>>, mtime |-> 0]

\* restore with UseSnapshot::Latest: it fails when the repository has no snapshot
RestoreLatest(order) ==
    IF Snapshots # {} THEN RestoreRun(latest_snapshot, order)
    ELSE /\ main.pc = "closed"
         /\ hist.restored = {}
         /\ hist' = [hist EXCEPT !.restored = {NoRestore}]
         /\ UNCHANGED <<backend, index, packers, pack_saver, nonce, thr, main, fs>>

\* the user looks at the failed restore and goes on
UserSeen ==
    /\ main.pc = "closed"
    /\ hist.restored = {NoRestore}
    /\ hist' = [hist EXCEPT !.restored = {}]
    /\ UNCHANGED <<backend, index, packers, pack_saver, nonce, thr, main, fs>>

NextDry ==
    \/ \E size \in PackSizes, order \in Orders(IndexFiles), dry_run \in BOOLEAN :
           SnapshotStart(size, order, MaxSnapshots + 1, dry_run)
    \/ InitPackSaver
    \/ SnapshotRead
    \/ \E t \in Threads : WorkerNext(t)
    \/ \E t \in Threads : ESB_add(t)
    \/ \E t \in Threads : ESB_check(t, FALSE)
    \/ SnapshotTree
    \/ SnapshotFlush(FALSE, FALSE)
    \/ FinalizePackSaver
    \/ SnapshotSave
    \/ SaverTake
    \/ SaverWritten
    \/ SaverWriteError
    \/ \E order \in Orders(IndexFiles) : RestoreLatest(order)
    \/ UserClean
    \/ UserSeen

SpecDry == InitSnap /\ [][NextDry]_vars

(***************************************************************************)
(* SpecCleanup: a repository is opened on index files that spread packs    *)
(* over indices, and gc calls cleanup for a set of packs and saves.        *)
(***************************************************************************)
MaxIndices == 2

CleanupPacks == {1, 2, 3}

\* blob 4 is a tree, the other blobs are data
BlobTypeOf(b) == IF b = 4 THEN "Tree" ELSE "Data"

\* what a pack may hold: one blob, or two data blobs
PackContents == {{1}, {2}, {3}, {4}, {1, 2}, {2, 3}, {1, 3}}

\* the descriptors of a pack that holds the blobs, blob b being b bytes long
PackDescriptors(pack_id, blobs) ==
    {[id |-> b, blob_type |-> BlobTypeOf(b),
      offset |-> SumSeq([c \in 1..(b - 1) |-> IF c \in blobs THEN c ELSE 0]),
      length |-> b, raw_length |-> pack_id] :
        b \in blobs}

\* the index files of a layout: place[p] is the index file that names pack p
LoadedIndex(contents, place, i) ==
    [Index_from_index_file(
         SetToSeqBy(
             {[id |-> p, blobs |-> PackDescriptors(p, contents[p])] :
                 p \in {q \in CleanupPacks : place[q] = i}}))
     EXCEPT !.id = FILE_ID_BASE + i]

InitCleanup ==
    /\ backend = EmptyMap
    /\ \E contents \in [CleanupPacks -> PackContents], place \in [CleanupPacks -> 1..MaxIndices] :
           index = [indices |-> SelectSeq([i \in 1..MaxIndices |->
                                              LoadedIndex(contents, place, i)],
                                          LAMBDA idx : ~Index_is_empty(idx)),
                    pending_blobs |-> {}]
    /\ packers = [Data |-> Packer_new, Tree |-> Packer_new]
    /\ pack_saver = PackSaver_none
    /\ nonce = 1
    /\ thr = [t \in Threads |-> ThreadIdle]
    /\ main = [MainClosed EXCEPT !.pc = "gc", !.cmd = "cleanup"]
    /\ fs = [src |-> NoFile, dst |-> NoFile]
    /\ hist = [cleaned |-> [some |-> FALSE], tolerance |-> 0]

\* gc: cleanup(Some(obsolete_packs)) and then the save of flush
CleanupSave(obsolete_packs) ==
    /\ main.pc = "gc"
    /\ \E saved \in {MasterIndex_save(
                         [Repo EXCEPT !.index = MasterIndex_cleanup(index, obsolete_packs)])} :
           Store(saved.R)
    /\ main' = [main EXCEPT !.pc = "closed"]
    /\ hist' = [hist EXCEPT !.cleaned = [some |-> TRUE, packs |-> obsolete_packs,
                                         before |-> index]]
    /\ UNCHANGED <<thr, fs>>

NextCleanup == \E obsolete_packs \in SUBSET CleanupPacks : CleanupSave(obsolete_packs)

SpecCleanup == InitCleanup /\ [][NextCleanup]_vars

(***************************************************************************)
(* SpecRetry: encode_and_save_blob calls that may fail, before and after   *)
(* init_pack_saver.                                                        *)
(***************************************************************************)
\* secure_storage.encode returns Err and ? returns it to the caller
ESB_encode_error(t) ==
    /\ thr[t].pc = "encode"
    /\ Return(t, thr[t].id, thr[t].call.data, FALSE, index)
    /\ UNCHANGED <<backend, index, packers, pack_saver, nonce, main, fs>>

RetryStore(t, bytes) ==
    /\ main.pc \in {"start", "run"}
    /\ Len(thr[t].rets) < MaxCalls
    /\ ESB_reserve(t, [blob_type |-> "Data", data |-> DataBlob(bytes), save_id |-> 0], <<>>)

NextRetry ==
    \/ InitPackSaver
    \/ \E t \in Workers, bytes \in {<<b>> : b \in Bytes} : RetryStore(t, bytes)
    \/ \E t \in Workers : ESB_add(t)
    \/ \E t \in Workers : ESB_encode_error(t)
    \/ \E t \in Workers, aged \in BOOLEAN : ESB_check(t, aged)
    \/ SaverTake
    \/ SaverWritten

SpecRetry == InitBlob /\ [][NextRetry]_vars

(***************************************************************************)
(* SpecLock: the locks of the Repository.  A call is the sequence of lock  *)
(* operations one of its paths performs; thr[t] holds the operations a     *)
(* thread has still to perform and the guards it holds.  The four locks    *)
(* are parking_lot RwLocks.                                                *)
(***************************************************************************)
Acq(lock, mode) == [op |-> "acquire", lock |-> lock, mode |-> mode]
Rel(lock) == [op |-> "release", lock |-> lock, mode |-> "none"]

PackerLock(blob_type) == IF blob_type = "Data" THEN "data_packer" ELSE "tree_packer"

\* the guard of the whole function body
index_wlock_to_end(rest) == <<Acq("index", "write")>> \o rest \o <<Rel("index")>>

\* let mut index_wlock = self.index.write(); ...; drop(index_wlock); and
\* what the call does after it
index_wlock_scope(rest) == <<Acq("index", "write"), Rel("index")>> \o rest

\* flush_packer: the guard of the match scrutinee lives to the end of the
\* match, the guard of the if let to the end of the if let
flush_packer_locks(lock) ==
    {\* flush returns None
     <<Acq(lock, "write"), Rel(lock)>>,
     \* no pack saver: bail
     <<Acq(lock, "write"), Acq("pack_saver", "write"), Rel("pack_saver"), Rel(lock)>>,
     \* save_pack, then add_pack
     <<Acq(lock, "write"), Acq("pack_saver", "write"), Rel("pack_saver"),
       Acq("index", "write"), Rel("index"), Rel(lock)>>}

encode_and_save_blob_locks(blob_type) ==
    LET lock == PackerLock(blob_type)
        add_blob == <<Acq(lock, "write"), Rel(lock), Acq(lock, "read"), Rel(lock)>>
    IN {index_wlock_scope(<<>>), index_wlock_scope(add_blob)}
       \cup {index_wlock_scope(add_blob \o flushed) : flushed \in flush_packer_locks(lock)}

load_blob_locks == {<<Acq("index", "read"), Rel("index")>>}

flush_locks ==
    {data : data \in {p \in flush_packer_locks("data_packer") : Len(p) = 4}}
    \cup {data \o tree :
            data \in {p \in flush_packer_locks("data_packer") : Len(p) # 4},
            tree \in {p \in flush_packer_locks("tree_packer") : Len(p) = 4}}
    \cup {data \o tree \o <<Acq("index", "write"), Rel("index")>> :
            data \in {p \in flush_packer_locks("data_packer") : Len(p) # 4},
            tree \in {p \in flush_packer_locks("tree_packer") : Len(p) # 4}}

\* thread u holds a guard that keeps thread t from acquiring: any guard of
\* the lock keeps a writer out, a write guard keeps a reader out, and a
\* thread that holds the lock itself waits for ever
Blocks(u, t, a) ==
    \E g \in thr[u].held :
        /\ g.lock = a.lock
        /\ u = t \/ a.mode = "write" \/ g.mode = "write"

CanAcquire(t, a) == \A u \in Workers : ~Blocks(u, t, a)

InitLock ==
    /\ backend = EmptyMap
    /\ index = MasterIndex_new
    /\ packers = [Data |-> Packer_new, Tree |-> Packer_new]
    /\ pack_saver = PackSaver_none
    /\ nonce = 1
    /\ thr = [t \in Workers |-> [ops |-> <<>>, held |-> {}]]
    /\ main = [MainClosed EXCEPT !.pc = "run", !.cmd = "lock"]
    /\ fs = [src |-> NoFile, dst |-> NoFile]
    /\ hist = [order_kept |-> TRUE]

\* a thread calls encode_and_save_blob, load_blob or flush
LockCall(t, ops) ==
    /\ thr[t].ops = <<>>
    /\ thr' = [thr EXCEPT ![t].ops = ops]
    /\ UNCHANGED <<backend, index, packers, pack_saver, nonce, main, fs, hist>>

LockRank(lock) == CASE lock \in {"data_packer", "tree_packer"} -> 1
                    [] lock = "pack_saver" -> 2
                    [] lock = "index" -> 3

LockAcquire(t) ==
    /\ thr[t].ops # <<>>
    /\ Head(thr[t].ops).op = "acquire"
    /\ CanAcquire(t, Head(thr[t].ops))
    /\ thr' = [thr EXCEPT ![t].ops = Tail(@),
                          ![t].held = @ \cup {[lock |-> Head(thr[t].ops).lock,
                                               mode |-> Head(thr[t].ops).mode]}]
    /\ hist' = [order_kept |-> /\ hist.order_kept
                               /\ \A g \in thr[t].held :
                                      LockRank(g.lock) < LockRank(Head(thr[t].ops).lock)]
    /\ UNCHANGED <<backend, index, packers, pack_saver, nonce, main, fs>>

LockRelease(t) ==
    /\ thr[t].ops # <<>>
    /\ Head(thr[t].ops).op = "release"
    /\ thr' = [thr EXCEPT ![t].ops = Tail(@),
                          ![t].held = {g \in @ : g.lock # Head(thr[t].ops).lock}]
    /\ UNCHANGED <<backend, index, packers, pack_saver, nonce, main, fs, hist>>

NextLock ==
    \/ \E t \in Workers, blob_type \in {"Data", "Tree"} :
           \E ops \in encode_and_save_blob_locks(blob_type) : LockCall(t, ops)
    \/ \E t \in Workers, ops \in load_blob_locks : LockCall(t, ops)
    \/ \E t \in Workers, ops \in flush_locks : LockCall(t, ops)
    \/ \E t \in Workers : LockAcquire(t)
    \/ \E t \in Workers : LockRelease(t)

SpecLock == InitLock /\ [][NextLock]_vars

(***************************************************************************)
(* SpecCache: the caches of the mounted file system.  main holds the       *)
(* BlobCache, the TreeCache and the position of the load call that is      *)
(* running; hist.calls and hist.tree_calls are the IDs load was called     *)
(* with, in the order of the calls.                                        *)
(***************************************************************************)
MaxCapacity == 3
MaxLoads == 4

\* the blobs of the repository: blob b is b bytes long
CachedPack ==
    <<[id |-> 1, blobs |-> {[id |-> b, blob_type |-> "Data", offset |-> b,
                             length |-> b + ENVELOPE_OVERHEAD, raw_length |-> b] :
                                b \in 1..(MaxCapacity + 1)}]>>

BlobCache_new(capacity) ==
    [capacity |-> capacity, size |-> 0, blobs |-> EmptyMap, order_map |-> EmptyMap,
     next_timestamp |-> 0]

\* the trees of the repository
CachedTrees == {TREE_ID_BASE + t : t \in 1..(MaxCapacity + 1)}

TreeCache_new(capacity) ==
    [capacity |-> capacity, trees |-> EmptyMap, order_map |-> EmptyMap, next_timestamp |-> 0]

\* a hit moves the entry to the current timestamp in both maps
refresh_keeps_timestamp(entries, order_map, id, current_timestamp) ==
    [entries |-> entries, order_map |-> order_map]

refresh_timestamp(entries, order_map, id, current_timestamp) ==
    [entries |-> [entries EXCEPT ![id].timestamp = current_timestamp],
     order_map |-> Put(Drop(order_map, {entries[id].timestamp}), current_timestamp, id)]

\* the test before the eviction of a tree
TreeCache_over_capacity(c) == Cardinality(DOMAIN c.trees) > c.capacity

TreeCache_at_capacity(c) == Cardinality(DOMAIN c.trees) >= c.capacity

\* pop_first of the order map
pop_first(order_map) ==
    IF order_map = EmptyMap THEN [some |-> FALSE, timestamp |-> 0, id |-> 0, rest |-> order_map]
    ELSE LET lru_timestamp == CHOOSE ts \in DOMAIN order_map :
                                  \A o \in DOMAIN order_map : ts <= o
         IN [some |-> TRUE, timestamp |-> lru_timestamp, id |-> order_map[lru_timestamp],
             rest |-> Drop(order_map, {lru_timestamp})]

InitCache ==
    /\ backend = EmptyMap
    /\ index = [indices |-> <<[Index_from_index_file(CachedPack) EXCEPT !.id = FILE_ID_BASE]>>,
                pending_blobs |-> {}]
    /\ packers = [Data |-> Packer_new, Tree |-> Packer_new]
    /\ pack_saver = PackSaver_none
    /\ nonce = 1
    /\ thr = [t \in Threads |-> ThreadIdle]
    /\ main \in {[pc |-> "idle", cache |-> BlobCache_new(capacity),
                  tree_cache |-> TreeCache_new(capacity), id |-> 0,
                  current_timestamp |-> 0, blob_indexed_size |-> 0, loads |-> 0,
                  result |-> "none"] : capacity \in 1..MaxCapacity}
    /\ fs = [src |-> NoFile, dst |-> NoFile]
    /\ hist = [evictions |-> 0, calls |-> <<>>, tree_calls |-> <<>>]

\* load up to the eviction loop: a hit returns the blob, a blob that is not
\* indexed is an error
BlobCache_load(id) ==
    LET c == main.cache
        current_timestamp == c.next_timestamp
        c1 == [c EXCEPT !.next_timestamp = @ + 1]
        entry == MasterIndex_get(index, id)
    IN /\ main.pc = "idle"
       /\ main.loads < MaxLoads
       /\ main' =
              IF id \in DOMAIN c.blobs
              THEN [main EXCEPT !.loads = @ + 1, !.result = "hit",
                                !.cache = [c1 EXCEPT
                                    !.order_map = refresh_timestamp(
                                                      c.blobs, c.order_map, id,
                                                      current_timestamp).order_map,
                                    !.blobs = refresh_timestamp(
                                                  c.blobs, c.order_map, id,
                                                  current_timestamp).entries]]
              ELSE IF ~entry.some
              THEN [main EXCEPT !.loads = @ + 1, !.result = "not indexed", !.cache = c1]
              ELSE [main EXCEPT !.loads = @ + 1, !.pc = "evict", !.id = id, !.cache = c1,
                                !.current_timestamp = current_timestamp,
                                !.blob_indexed_size = entry.raw_length]
       /\ hist' = [hist EXCEPT !.evictions = 0, !.calls = Append(@, id)]
       /\ UNCHANGED <<backend, index, packers, pack_saver, nonce, thr, fs>>

\* one turn of the eviction loop: pop_first and, when it returns an entry,
\* the removal of that blob
BlobCache_evict_one ==
    LET c == main.cache
        lru_timestamp == CHOOSE ts \in DOMAIN c.order_map : \A o \in DOMAIN c.order_map : ts <= o
        lru_id == c.order_map[lru_timestamp]
    IN /\ main.pc = "evict"
       /\ c.size + main.blob_indexed_size > c.capacity
       /\ IF c.order_map # EmptyMap
          THEN /\ main' = [main EXCEPT !.cache.order_map = Drop(@, {lru_timestamp}),
                                       !.cache.blobs = Drop(@, {lru_id}),
                                       !.cache.size = @ - c.blobs[lru_id].len]
               /\ hist' = [hist EXCEPT !.evictions = @ + 1]
          ELSE UNCHANGED <<main, hist>>
       /\ UNCHANGED <<backend, index, packers, pack_saver, nonce, thr, fs>>

\* after the loop: load_blob and the insertion of the blob
BlobCache_insert ==
    LET c == main.cache
    IN /\ main.pc = "evict"
       /\ ~(c.size + main.blob_indexed_size > c.capacity)
       /\ main' = [main EXCEPT
              !.pc = "idle", !.result = "miss",
              !.cache.size = @ + MasterIndex_get(index, main.id).raw_length,
              !.cache.blobs = Put(@, main.id,
                                  [len |-> MasterIndex_get(index, main.id).raw_length,
                                   timestamp |-> main.current_timestamp]),
              !.cache.order_map = Put(@, main.current_timestamp, main.id)]
       /\ UNCHANGED <<backend, index, packers, pack_saver, nonce, thr, fs, hist>>

\* TreeCache::load: a hit, or a miss that evicts at most one tree and inserts
\* the tree it loads; a tree that cannot be loaded is a panic after the eviction
TreeCache_load(id) ==
    LET c == main.tree_cache
        current_timestamp == c.next_timestamp
        c1 == [c EXCEPT !.next_timestamp = @ + 1]
        lru == pop_first(c.order_map)
        evicted == IF TreeCache_at_capacity(c) /\ lru.some
                   THEN [c1 EXCEPT !.order_map = lru.rest, !.trees = Drop(@, {lru.id})]
                   ELSE c1
    IN /\ main.pc = "idle"
       /\ main.loads < MaxLoads
       /\ main' =
              IF id \in DOMAIN c.trees
              THEN [main EXCEPT !.loads = @ + 1, !.result = "hit",
                                !.tree_cache = [c1 EXCEPT
                                    !.order_map = refresh_timestamp(
                                                      c.trees, c.order_map, id,
                                                      current_timestamp).order_map,
                                    !.trees = refresh_timestamp(
                                                  c.trees, c.order_map, id,
                                                  current_timestamp).entries]]
              ELSE IF id \notin CachedTrees
              THEN [main EXCEPT !.loads = @ + 1, !.pc = "panicked", !.result = "panic",
                                !.tree_cache = evicted]
              ELSE [main EXCEPT !.loads = @ + 1, !.result = "miss",
                                !.tree_cache = [evicted EXCEPT
                                    !.trees = Put(@, id, [timestamp |-> current_timestamp]),
                                    !.order_map = Put(@, current_timestamp, id)]]
       /\ hist' = [hist EXCEPT !.tree_calls = Append(@, id)]
       /\ UNCHANGED <<backend, index, packers, pack_saver, nonce, thr, fs>>

NextCache ==
    \/ \E id \in 1..(MaxCapacity + 2) : BlobCache_load(id)
    \/ BlobCache_evict_one
    \/ BlobCache_insert
    \/ \E id \in CachedTrees \cup {TREE_ID_BASE} : TreeCache_load(id)

SpecCache == InitCache /\ [][NextCache]_vars

\* the thread that called load keeps running
SpecCacheLive == SpecCache /\ WF_vars(BlobCache_evict_one) /\ WF_vars(BlobCache_insert)

(***************************************************************************)
(* Garbage collection: scan builds the Plan, Plan::execute carries it out. *)
(***************************************************************************)
\* get_referenced_blobs_and_packs for one snapshot
ReferencedBy(R, snapshot_id) ==
    LET snapshot == Repository_load_file(R, "Snapshot", snapshot_id)
    IN IF ~snapshot.ok THEN [ok |-> FALSE, blobs |-> {}]
       ELSE LET tree_id == snapshot.plain.body[1].tree
                tree == Repository_load_blob(R, tree_id)
            IN IF ~tree.ok THEN [ok |-> FALSE, blobs |-> {tree_id}]
               ELSE [ok |-> TRUE,
                     blobs |-> {tree_id} \cup
                               UNION {Range(tree.plain.body[n].blobs) :
                                          n \in DOMAIN tree.plain.body}]

ReferencedBlobs(R) ==
    UNION {ReferencedBy(R, path[2]).blobs : path \in Backend_read_dir(R.backend, "snapshots")}

ReferencedPacks(R, blobs) ==
    {MasterIndex_get(R.index, b).pack_id : b \in {x \in blobs : MasterIndex_get(R.index, x).some}}

Repository_list_objects(R) ==
    {path[2] : path \in {q \in Backend_read_dir(R.backend, "objects") : q[3] = ""}}

\* the items iter_ids yields, one for every blob of every index
MasterIndex_iter_ids(mi) ==
    UNION {{[index |-> i, id |-> b, pack_id |-> Index_get(mi.indices[i], b).pack_id,
             length |-> Index_get(mi.indices[i], b).length] :
               b \in (DOMAIN mi.indices[i].data_ids) \cup (DOMAIN mi.indices[i].tree_ids)} :
           i \in DOMAIN mi.indices}

RECURSIVE SumLength(_)
SumLength(entries) ==
    IF entries = {} THEN 0
    ELSE LET e == CHOOSE x \in entries : TRUE IN e.length + SumLength(entries \ {e})

\* kept_pack_size: and_modify adds the length, or_default starts the pack at 0,
\* so the item that is iterated first for a pack is not counted
KeptPackSize(entries) ==
    SumLength(entries) - (CHOOSE x \in entries : TRUE).length

IsSmall(size) == size * 100 < MIN_PACK_SIZE_PERCENT * DEFAULT_PACK_SIZE

AboveTolerance(garbage_bytes, tolerance) == garbage_bytes * 100 > tolerance * DEFAULT_PACK_SIZE

\* the two loops of scan over the items of iter_ids: the garbage of every
\* pack, the small packs and the garbage levels
scan_packs(entries, referenced_blobs, tolerance) ==
    LET of(pack_id) == {e \in entries : e.pack_id = pack_id}
        garbage(pack_id) == {e \in of(pack_id) : e.id \notin referenced_blobs}
        indexed == {e.pack_id : e \in entries}
        with_garbage == {pack_id \in indexed : garbage(pack_id) # {}}
        obsolete == {pack_id \in with_garbage :
                        AboveTolerance(SumLength(garbage(pack_id)), tolerance)}
    IN [obsolete_packs |-> obsolete,
        small_packs |-> {pack_id \in indexed : IsSmall(KeptPackSize(of(pack_id)))},
        tolerated_packs |-> with_garbage \ obsolete]

scan(R, tolerance) ==
    LET referenced_blobs == ReferencedBlobs(R)
        referenced_packs == ReferencedPacks(R, referenced_blobs)
        objects == Repository_list_objects(R)
        packs == scan_packs(MasterIndex_iter_ids(R.index), referenced_blobs, tolerance)
    IN [ok |-> \A path \in Backend_read_dir(R.backend, "snapshots") :
                   ReferencedBy(R, path[2]).ok,
        plan |-> [referenced_blobs |-> referenced_blobs,
                  referenced_packs |-> referenced_packs,
                  obsolete_packs |-> packs.obsolete_packs,
                  small_packs |-> packs.small_packs,
                  tolerated_packs |-> packs.tolerated_packs,
                  unused_packs |-> objects \ referenced_packs,
                  index_ids |-> MasterIndex_ids(R.index)]]

Repository_delete_files(b, file_type, ids) ==
    Drop(b, {Repository_get_path(file_type, id) : id \in ids})

\* the blobs repack moves: the referenced blobs the index locates in an obsolete pack
RepackBlobInfo(R, plan) ==
    {[id |-> b, at |-> MasterIndex_get(R.index, b)] :
        b \in {x \in plan.referenced_blobs :
                  /\ MasterIndex_get(R.index, x).some
                  /\ MasterIndex_get(R.index, x).pack_id \in plan.obsolete_packs}}

\* the blobs resolve under every order in which the index files can be loaded
ResolvableAfterReopen(b, blobs) ==
    \A order \in Orders(Backend_read_dir(b, "index")) :
        \E loaded \in {Repository_load_master_index(b, MasterIndex_new, order)} :
            /\ loaded.ok
            /\ \A id \in blobs :
                   Repository_load_blob([backend |-> b, index |-> loaded.index], id).ok

\* cmd_gc: open the repository and scan it
GcStart(size, tolerance, order, limit) ==
    /\ main.pc = "closed"
    /\ main.runs.gc < limit
    /\ \E loaded \in {Repository_load_master_index(backend, MasterIndex_new, order)} :
           /\ loaded.ok
           /\ \E scanned \in {scan([backend |-> backend, index |-> loaded.index], tolerance)} :
                  IF scanned.ok
                  THEN /\ index' = loaded.index
                       /\ main' = [main EXCEPT !.pc = "gc_planned", !.cmd = "gc",
                                               !.pack_size = size, !.plan = scanned.plan,
                                               !.runs.gc = @ + 1]
                       /\ hist' = [hist EXCEPT
                              !.returned = {}, !.added = {}, !.readded = {},
                              !.write_failed = FALSE, !.gc = "running",
                              !.tolerance = tolerance,
                              !.resolvable = {id \in scanned.plan.referenced_blobs :
                                                 ResolvableAfterReopen(backend, {id})}]
                  ELSE /\ main' = [main EXCEPT !.runs.gc = @ + 1]
                       /\ hist' = [hist EXCEPT !.gc = "failed", !.resolvable = {}]
                       /\ UNCHANGED index
    /\ thr' = [t \in Threads |-> ThreadIdle]
    /\ UNCHANGED <<backend, packers, pack_saver, nonce, fs>>

\* execute: small packs join the obsolete packs, the unused packs are deleted
GcDeleteUnused ==
    LET merge == Cardinality(main.plan.small_packs) > 1
        obsolete == IF merge THEN main.plan.obsolete_packs \cup main.plan.small_packs
                    ELSE main.plan.obsolete_packs
    IN /\ main.pc = "gc_planned"
       /\ backend' = Repository_delete_files(backend, "Pack", main.plan.unused_packs)
       /\ main' = [main EXCEPT !.plan.obsolete_packs = obsolete,
                               !.plan.small_packs = IF merge THEN {} ELSE @,
                               !.pc = IF obsolete = {} THEN "gc_done" ELSE "start"]
       /\ hist' = [hist EXCEPT !.gc = IF obsolete = {} THEN "done" ELSE @]
       /\ UNCHANGED <<index, packers, pack_saver, nonce, thr, fs>>

\* repack: collect the blobs to move, clean up the index, hand the blobs to the pool
GcRepack ==
    LET info == SetToSeq(RepackBlobInfo(Repo, main.plan))
        item(k) == [id |-> info[k].id, blob_type |-> info[k].at.blob_type,
                    pack_id |-> info[k].at.pack_id, offset |-> info[k].at.offset,
                    length |-> info[k].at.length]
        share(t) == SelectSeq([k \in DOMAIN info |-> k],
                              LAMBDA k : t = 1 + ((k - 1) % NumWorkers))
    IN /\ main.pc = "run"
       /\ main.cmd = "gc"
       /\ index' = MasterIndex_cleanup(index, main.plan.obsolete_packs)
       /\ thr' = [t \in Threads |->
                     [ThreadIdle EXCEPT !.job = [n \in DOMAIN share(t) |-> item(share(t)[n])]]]
       /\ main' = [main EXCEPT !.pc = "repack"]
       /\ UNCHANGED <<backend, packers, pack_saver, nonce, fs, hist>>

\* a pool thread reads the next blob from its old pack and stores it again
GcWorkerNext(t) ==
    LET item == Head(thr[t].job)
        data == Repository_load_from_pack(Repo, item.pack_id, item.offset, item.length)
    IN /\ main.pc = "repack"
       /\ thr[t].pc = "idle"
       /\ thr[t].job # <<>>
       /\ IF data.ok
          THEN ESB_reserve(t, [blob_type |-> item.blob_type, data |-> data.plain,
                               save_id |-> item.id], Tail(thr[t].job))
          ELSE /\ main' = [main EXCEPT !.pc = "gc_failed"]
               /\ thr' = [u \in Threads |-> [thr[u] EXCEPT !.job = <<>>]]
               /\ hist' = [hist EXCEPT !.gc = "failed"]
               /\ UNCHANGED <<backend, index, packers, pack_saver, nonce, fs>>

GcFlush ==
    /\ main.pc = "repack"
    /\ \A t \in Threads : ThreadDone(t)
    /\ \E flushed \in {Repository_flush(Repo, FALSE, FALSE)} :
           /\ Store(flushed.R)
           /\ main' = [main EXCEPT !.pc = "flushed", !.flush_ok = flushed.ok]
    /\ UNCHANGED <<thr, fs, hist>>

GcDeleteOldIndices ==
    /\ main.pc = "finished"
    /\ main.cmd = "gc"
    /\ backend' = Repository_delete_files(backend, "Index",
                                          main.plan.index_ids \ MasterIndex_ids(index))
    /\ main' = [main EXCEPT !.pc = "gc_indices",
                            !.plan.index_ids = @ \ MasterIndex_ids(index)]
    /\ UNCHANGED <<index, packers, pack_saver, nonce, thr, fs, hist>>

GcDeleteObsoletePacks ==
    /\ main.pc = "gc_indices"
    /\ backend' = Repository_delete_files(backend, "Pack", main.plan.obsolete_packs)
    /\ main' = [main EXCEPT !.pc = "gc_done"]
    /\ hist' = [hist EXCEPT !.gc = "done"]
    /\ UNCHANGED <<index, packers, pack_saver, nonce, thr, fs>>

\* the command returns and the Repository is dropped
GcExit ==
    /\ main.pc = "gc_done"
    /\ Close(Repo)
    /\ main' = [main EXCEPT !.pc = "closed", !.cmd = "none", !.plan = NoPlan]
    /\ UNCHANGED <<thr, fs, hist>>

\* repack failed: execute returns the error and the Repository is dropped, which
\* flushes it; the packs still in the saver's channel may or may not be written
GcFailedFlush ==
    /\ main.pc = "gc_failed"
    /\ \A t \in Threads : ThreadDone(t)
    /\ \E flushed \in {Repository_flush(Repo, FALSE, FALSE)} : Store(flushed.R)
    /\ main' = [main EXCEPT !.pc = "gc_exiting"]
    /\ UNCHANGED <<thr, fs, hist>>

GcFailedExit ==
    /\ main.pc = "gc_exiting"
    /\ pack_saver.writing = <<>>
    /\ Close(Repo)
    /\ main' = [main EXCEPT !.pc = "closed", !.cmd = "none", !.plan = NoPlan]
    /\ UNCHANGED <<thr, fs, hist>>

\* the gc process is killed: the files are left as they are
GcCrash ==
    /\ main.cmd = "gc"
    /\ main.pc \notin {"closed", "gc_done", "gc_failed", "gc_exiting"}
    /\ Close(Repo)
    /\ main' = [main EXCEPT !.pc = "closed", !.cmd = "none", !.plan = NoPlan]
    /\ thr' = [t \in Threads |-> ThreadIdle]
    /\ hist' = [hist EXCEPT !.gc = "crashed"]
    /\ UNCHANGED fs

\* the forget command removes a snapshot
Forget(id) ==
    /\ main.pc = "closed"
    /\ Backend_exists(backend, Repository_get_path("Snapshot", id))
    /\ backend' = Backend_remove_file(backend, Repository_get_path("Snapshot", id))
    /\ main' = [main EXCEPT !.runs.forget = @ + 1]
    /\ UNCHANGED <<index, packers, pack_saver, nonce, thr, fs, hist>>

(***************************************************************************)
(* SpecGC: a snapshot, forget and garbage collection, which may be killed. *)
(***************************************************************************)
NextGC ==
    \/ \E size \in PackSizes, order \in Orders(IndexFiles) : SnapshotStart(size, order, MaxSnapshots, FALSE)
    \/ InitPackSaver
    \/ SnapshotRead
    \/ \E t \in Threads : WorkerNext(t)
    \/ \E t \in Threads : ESB_add(t)
    \/ \E t \in Threads : ESB_check(t, FALSE)
    \/ SnapshotTree
    \/ SnapshotFlush(FALSE, FALSE)
    \/ FinalizePackSaver
    \/ SnapshotSave
    \/ SaverTake
    \/ SaverWritten
    \/ SaverWriteError
    \/ \E id \in Snapshots : Forget(id)
    \/ \E size \in PackSizes, tolerance \in Tolerances, order \in Orders(IndexFiles) :
           GcStart(size, tolerance, order, MaxGcRuns)
    \/ GcDeleteUnused
    \/ GcRepack
    \/ \E t \in Threads : GcWorkerNext(t)
    \/ GcFlush
    \/ GcDeleteOldIndices
    \/ GcDeleteObsoletePacks
    \/ GcExit
    \/ GcFailedFlush
    \/ GcFailedExit
    \/ GcCrash

SpecGC == InitSnap /\ [][NextGC]_vars

(***************************************************************************)
(* SpecScan: the scan of gc over the same indices, for any set of          *)
(* referenced blobs and any tolerance.                                     *)
(***************************************************************************)
ScanIndex(referenced_blobs, tolerance) ==
    /\ main.pc = "gc"
    /\ \E packs \in {scan_packs(MasterIndex_iter_ids(index), referenced_blobs, tolerance)} :
           main' = [main EXCEPT
                       !.pc = "gc_planned",
                       !.plan = [NoPlan EXCEPT
                                    !.referenced_blobs = referenced_blobs,
                                    !.referenced_packs = ReferencedPacks(Repo, referenced_blobs),
                                    !.obsolete_packs = packs.obsolete_packs,
                                    !.small_packs = packs.small_packs,
                                    !.tolerated_packs = packs.tolerated_packs,
                                    !.index_ids = MasterIndex_ids(index)]]
    /\ hist' = [hist EXCEPT !.tolerance = tolerance]
    /\ UNCHANGED <<backend, index, packers, pack_saver, nonce, thr, fs>>

NextScan ==
    \E referenced_blobs \in SUBSET (1..4), tolerance \in Tolerances :
        ScanIndex(referenced_blobs, tolerance)

SpecScan == InitCleanup /\ [][NextScan]_vars

(***************************************************************************)
(* SpecAddPack: add_pack calls for the packs that the packers flush, on a  *)
(* master index whose pending set holds the reserved IDs.                  *)
(***************************************************************************)
MaxIndexSaves == 5

\* the IDs that encode_and_save_blob has reserved
ReservedIds == 1..(BLOBS_PER_INDEX_FILE + 1)

InitAddPack ==
    /\ backend = EmptyMap
    /\ index = [MasterIndex_new EXCEPT !.pending_blobs = ReservedIds]
    /\ packers = [Data |-> Packer_new, Tree |-> Packer_new]
    /\ pack_saver = PackSaver_new
    /\ nonce = 1
    /\ thr = [t \in Threads |-> ThreadIdle]
    /\ main = [MainClosed EXCEPT !.pc = "run", !.cmd = "add_pack"]
    /\ fs = [src |-> NoFile, dst |-> NoFile]
    /\ hist = [added |-> [some |-> FALSE]]

\* flush_packer hands the descriptors of a flushed pack to add_pack; aged:
\* the pending Index is older than INDEX_FLUSH_TIMEOUT
AddPack(blobs, aged) ==
    /\ blobs # {}
    /\ blobs \subseteq index.pending_blobs
    /\ \A a, b \in blobs : BlobTypeOf(a) = BlobTypeOf(b)
    /\ aged => \E i \in DOMAIN index.indices : index.indices[i].is_pending
    /\ \E pack_id \in {FILE_ID_BASE + nonce} :
           \E added \in {MasterIndex_add_pack([Repo EXCEPT !.nonce = @ + 1], pack_id,
                                              SetToSeq(PackDescriptors(pack_id, blobs)),
                                              aged)} :
               /\ Store(added.R)
               /\ hist' = [added |-> [some |-> TRUE, pack_id |-> pack_id, blobs |-> blobs,
                                      aged |-> aged, before |-> index]]
    /\ UNCHANGED <<thr, main, fs>>

\* flush: MasterIndex::save of the pending Indices
AddPackSave ==
    /\ \E i \in DOMAIN index.indices : index.indices[i].is_pending
    /\ \E saved \in {MasterIndex_save(Repo)} : Store(saved.R)
    /\ hist' = [added |-> [some |-> FALSE]]
    /\ UNCHANGED <<thr, main, fs>>

\* gc: cleanup(Some(obsolete_packs)), which merges the Indices, and the save of flush
AddPackCleanup(obsolete_packs) ==
    /\ index.indices # <<>>
    /\ nonce <= MaxIndexSaves
    /\ \E saved \in {MasterIndex_save(
                         [Repo EXCEPT !.index = MasterIndex_cleanup(index, obsolete_packs)])} :
           Store(saved.R)
    /\ hist' = [added |-> [some |-> FALSE]]
    /\ UNCHANGED <<thr, main, fs>>

NextAddPack ==
    \/ \E blobs \in SUBSET ReservedIds, aged \in BOOLEAN : AddPack(blobs, aged)
    \/ AddPackSave
    \/ \E obsolete_packs \in SUBSET {FILE_ID_BASE + 1} : AddPackCleanup(obsolete_packs)

SpecAddPack == InitAddPack /\ [][NextAddPack]_vars

(***************************************************************************)
(* FSNodeStreamer.  A path is the sequence of its components; a component  *)
(* is a number whose order is the byte order of the name it stands for.    *)
(* The file system is the tree of the streamer tests:                      *)
(*   0 = the temporary root, 1 = dir_a, 2 = dir_b; inside dir_a            *)
(*   1 = dir0, 2 = dir1, 3 = dir2, 4 = file0; 1 = file1 inside dir2 and    *)
(*   1 = file2 inside dir_b.                                               *)
(***************************************************************************)
create_tree ==
    {<<0>>, <<0, 1>>, <<0, 1, 1>>, <<0, 1, 2>>, <<0, 1, 3>>, <<0, 1, 3, 1>>,
     <<0, 1, 4>>, <<0, 2>>, <<0, 2, 1>>}

\* Node::is_dir over that tree
is_dir(path) == path \in {<<0>>, <<0, 1>>, <<0, 1, 1>>, <<0, 1, 2>>, <<0, 1, 3>>, <<0, 2>>}

\* Path::starts_with: prefix by whole components
starts_with(path, base) ==
    /\ Len(base) <= Len(path)
    /\ SubSeq(path, 1, Len(base)) = base

\* the order of PathBuf: component by component, a prefix before its extensions
RECURSIVE PathLess(_, _)
PathLess(p, q) ==
    IF p = <<>> THEN q # <<>>
    ELSE IF q = <<>> THEN FALSE
    ELSE IF p[1] = q[1] THEN PathLess(Tail(p), Tail(q))
    ELSE p[1] < q[1]

\* the paths of a set, in increasing order
RECURSIVE SortPaths(_)
SortPaths(set) ==
    IF set = {} THEN <<>>
    ELSE LET least == CHOOSE p \in set : \A q \in set \ {p} : PathLess(p, q)
         IN <<least>> \o SortPaths(set \ {least})

Reverse(seq) == [i \in DOMAIN seq |-> seq[Len(seq) + 1 - i]]

\* utils::filter_path without include list: FALSE iff an exclude path is a prefix
filter_path_equal(path, exclude) == ~\E i \in DOMAIN exclude : path = exclude[i]

filter_path(path, exclude) == ~\E i \in DOMAIN exclude : starts_with(path, exclude[i])

\* utils::calculate_lcp: the longest prefix common to all the paths
calculate_lcp(paths) ==
    IF paths = {} THEN <<>>
    ELSE LET one == CHOOSE p \in paths : TRUE
             common == {k \in 0..Len(one) :
                           \A p \in paths : starts_with(p, SubSeq(one, 1, k))}
         IN SubSeq(one, 1, CHOOSE k \in common : \A j \in common : j <= k)

\* utils::get_intermediate_paths: the paths strictly between the common root and
\* a source path, each with the number of its children that lead to a source
get_intermediate_paths(common_root, paths) ==
    LET children(dir) == {SubSeq(p, 1, Len(dir) + 1) :
                             p \in {q \in paths : starts_with(q, dir) /\ Len(q) > Len(dir)}}
        between == UNION {{SubSeq(p, 1, k) : k \in (Len(common_root) + 1)..(Len(p) - 1)} :
                             p \in paths}
    IN [root_children_count |-> Cardinality(children(common_root)),
        intermediate_paths |-> {[path |-> dir, num_children |-> Cardinality(children(dir))] :
                                    dir \in between}]

FSNodeStreamer_from_paths(paths, exclude) ==
    LET exclude_paths == SortPaths(exclude)
        kept == {p \in paths : filter_path(p, exclude_paths)}
        common_root == calculate_lcp(kept)
        intermediate == {iv \in get_intermediate_paths(common_root, kept).intermediate_paths :
                            filter_path(iv.path, exclude_paths)}
        sorted == Reverse(SortPaths({iv.path : iv \in intermediate}))
    IN [stack |-> Reverse(SortPaths(kept)),
        intermediate_paths |-> [i \in DOMAIN sorted |->
                                   CHOOSE iv \in intermediate : iv.path = sorted[i]],
        exclude_paths |-> exclude_paths]

\* the children of a directory, by file name
get_children_sorted(dir) ==
    SortPaths({p \in create_tree : Len(p) = Len(dir) + 1 /\ starts_with(p, dir)})

Last(seq) == seq[Len(seq)]

Pop(seq) == SubSeq(seq, 1, Len(seq) - 1)

\* the loop at the head of next: drop excluded heads, then choose the list whose
\* head is smaller
RECURSIVE take_intermediate(_)
take_intermediate(s) ==
    IF s.intermediate_paths # <<>> /\ ~filter_path(Last(s.intermediate_paths).path, s.exclude_paths)
    THEN take_intermediate([s EXCEPT !.intermediate_paths = Pop(@)])
    ELSE IF s.stack # <<>> /\ ~filter_path(Last(s.stack), s.exclude_paths)
    THEN take_intermediate([s EXCEPT !.stack = Pop(@)])
    ELSE [s |-> s,
          take |-> IF s.intermediate_paths = <<>> /\ s.stack = <<>> THEN "none"
                   ELSE IF s.stack = <<>> THEN "intermediate"
                   ELSE IF s.intermediate_paths = <<>> THEN "stack"
                   ELSE IF PathLess(Last(s.intermediate_paths).path, Last(s.stack))
                        THEN "intermediate" ELSE "stack"]

\* a directory pushes its children that pass the filter, the smallest on top
push_children(stack, valid) == stack \o Reverse(valid)

FSNodeStreamer_next(streamer) ==
    LET chosen == take_intermediate(streamer)
        s == chosen.s
    IN IF chosen.take = "none"
       THEN [s |-> s, some |-> FALSE, path |-> <<>>, num_children |-> 0, read_dir |-> {}]
       ELSE IF chosen.take = "intermediate"
       THEN [s |-> [s EXCEPT !.intermediate_paths = Pop(@)], some |-> TRUE,
             path |-> Last(s.intermediate_paths).path,
             num_children |-> Last(s.intermediate_paths).num_children, read_dir |-> {}]
       ELSE LET path == Last(s.stack)
                children == IF is_dir(path) THEN get_children_sorted(path) ELSE <<>>
                valid == SelectSeq(children, LAMBDA child : filter_path(child, s.exclude_paths))
            IN [s |-> [s EXCEPT !.stack = push_children(Pop(@), valid)], some |-> TRUE,
                path |-> path, num_children |-> Len(valid),
                read_dir |-> IF is_dir(path) THEN {path} ELSE {}]

(***************************************************************************)
(* SpecFS: one run of an FSNodeStreamer over source and exclude paths.     *)
(***************************************************************************)
MaxSources == 2

MaxExcludes == 1

PathSets(limit) == {set \in SUBSET create_tree : Cardinality(set) <= limit}

InitFS ==
    /\ backend = EmptyMap
    /\ index = MasterIndex_new
    /\ packers = [Data |-> Packer_new, Tree |-> Packer_new]
    /\ pack_saver = PackSaver_none
    /\ nonce = 1
    /\ thr = [t \in Threads |-> ThreadIdle]
    /\ \E paths \in PathSets(MaxSources) \ {{}}, exclude \in PathSets(MaxExcludes) :
           /\ main = [pc |-> "stream", paths |-> paths,
                      streamer |-> FSNodeStreamer_from_paths(paths, exclude)]
           /\ hist = [emitted |-> <<>>, listed |-> {}, exclude |-> exclude]
    /\ fs = [tree |-> create_tree]

StreamNext ==
    LET item == FSNodeStreamer_next(main.streamer)
    IN /\ main.pc = "stream"
       /\ main' = [main EXCEPT !.streamer = item.s,
                               !.pc = IF item.some THEN "stream" ELSE "done"]
       /\ hist' = [hist EXCEPT !.emitted = IF item.some
                                           THEN Append(@, [path |-> item.path,
                                                           num_children |-> item.num_children])
                                           ELSE @,
                               !.listed = @ \cup item.read_dir]
       /\ UNCHANGED <<backend, index, packers, pack_saver, nonce, thr, fs>>

NextFS == StreamNext

SpecFS == InitFS /\ [][NextFS]_vars

(***************************************************************************)
(* Trees of directories.  A node is [name, tree]: the name is a number     *)
(* that stands for a file name (every node of the tree of the streamer     *)
(* tests has a name of its own), tree is the ID of the directory's Tree    *)
(* blob and 0 for a file.                                                  *)
(***************************************************************************)
\* dir_a, dir_b, dir0, dir1, dir2, file0, file1, file2
NodePaths ==
    <<<<0, 1>>, <<0, 2>>, <<0, 1, 1>>, <<0, 1, 2>>, <<0, 1, 3>>, <<0, 1, 4>>,
      <<0, 1, 3, 1>>, <<0, 2, 1>>>>

file_name(path) == CHOOSE name \in DOMAIN NodePaths : NodePaths[name] = path

\* Path::join of a directory and a node's name
Path_join(dir, name) == Append(dir, Last(NodePaths[name]))

extract_parent(path) == Pop(path)

\* the nodes of a tree, by name
RECURSIVE SortNodes(_)
SortNodes(nodes) ==
    IF nodes = {} THEN <<>>
    ELSE LET least == CHOOSE n \in nodes : \A m \in nodes : n.name <= m.name
         IN <<least>> \o SortNodes(nodes \ {least})

\* the serialized form of a directory's tree: its nodes sorted by name
DirTreeBlob(nodes) == [kind |-> "dirtree", body |-> SortNodes(nodes)]

\* encode_and_save_blob as one call of one thread
Repository_encode_and_save_blob(R, blob_type, data, aged) ==
    Once({IF MasterIndex_contains(R.index, id) \/ ~reserved.inserted
          THEN [ok |-> TRUE, R |-> R, id |-> id]
          ELSE Once({IF Packer_size(added.packers[blob_type]) > R.max_packer_size
                     THEN Once({[ok |-> flushed.ok, R |-> flushed.R, id |-> id] :
                                   flushed \in {Repository_flush_packer(added, blob_type, aged)}})
                     ELSE [ok |-> TRUE, R |-> added, id |-> id] :
                        added \in {[R EXCEPT !.index = reserved.mi,
                                             !.nonce = @ + 1,
                                             !.packers[blob_type] =
                                                 Packer_add_blob(
                                                     @, id, blob_type,
                                                     SecureStorage_encode(data, R.nonce),
                                                     RawLen(data),
                                                     SecureStorage_encode(data, R.nonce).len)]}}) :
             id \in {ID_from_content(data)},
             reserved \in {MasterIndex_add_pending_blob(R.index, ID_from_content(data))}})

\* Tree::save_to_repo
Tree_save_to_repo(R, nodes, aged) ==
    Repository_encode_and_save_blob(R, "Tree", DirTreeBlob(nodes), aged)

\* Tree::load_from_repo
Tree_load_from_repo(R, id) ==
    Once({IF loaded.ok /\ loaded.plain.kind = "dirtree"
          THEN [ok |-> TRUE, nodes |-> loaded.plain.body]
          ELSE [ok |-> FALSE, nodes |-> <<>>] :
             loaded \in {Repository_load_blob(R, id)}})

(***************************************************************************)
(* SerializedNodeStreamer without include list.  A stack entry is          *)
(* [parent, node]; next returns the streamer and Some(Ok((path, node,      *)
(* num_children))), Some(Err) or None.                                     *)
(***************************************************************************)
\* the nodes of a tree go on the stack, the smallest name on top
push_nodes(stack, parent, nodes) ==
    stack \o Reverse([i \in DOMAIN nodes |->
                         [parent |-> parent, node |-> SortNodes(Range(nodes))[i]]])

SerializedNodeStreamer_new(R, root_id, base_path, exclude) ==
    Once({IF ~tree.ok THEN [ok |-> FALSE, stack |-> <<>>, exclude |-> exclude]
          ELSE [ok |-> TRUE, stack |-> push_nodes(<<>>, base_path, tree.nodes),
                exclude |-> exclude] :
             tree \in {Tree_load_from_repo(R, root_id)}})

\* the loop at the head of next: pop until a path passes the filter
RECURSIVE pop_filtered(_)
pop_filtered(s) ==
    IF s.stack = <<>> THEN s
    ELSE IF filter_path(Path_join(Last(s.stack).parent, Last(s.stack).node.name), s.exclude)
    THEN s
    ELSE pop_filtered([s EXCEPT !.stack = Pop(@)])

NoItem == [some |-> FALSE, ok |-> FALSE, path |-> <<>>, node |-> [name |-> 0, tree |-> 0],
           num_children |-> 0]

SerializedNodeStreamer_next(R, streamer) ==
    LET s == pop_filtered(streamer)
    IN IF s.stack = <<>> THEN [s |-> s, item |-> NoItem]
       ELSE LET current_path == Path_join(Last(s.stack).parent, Last(s.stack).node.name)
                node == Last(s.stack).node
                rest == [s EXCEPT !.stack = Pop(@)]
            IN IF node.tree = 0
               THEN [s |-> rest,
                     item |-> [some |-> TRUE, ok |-> TRUE, path |-> current_path,
                               node |-> node, num_children |-> 0]]
               ELSE Once({IF ~subtree.ok
                          THEN [s |-> rest, item |-> [NoItem EXCEPT !.some = TRUE]]
                          ELSE Once({[s |-> [rest EXCEPT !.stack =
                                                push_nodes(@, current_path, filtered_children)],
                                      item |-> [some |-> TRUE, ok |-> TRUE,
                                                path |-> current_path, node |-> node,
                                                num_children |-> Len(filtered_children)]] :
                                        filtered_children \in
                                            {SelectSeq(subtree.nodes,
                                                       LAMBDA subnode :
                                                           filter_path(
                                                               Path_join(current_path, subnode.name),
                                                               s.exclude))}}) :
                             subtree \in {Tree_load_from_repo(R, node.tree)}})

(***************************************************************************)
(* The tree serializer: a map from the path of every open directory to the *)
(* nodes of its tree that are final and to the number of children it still *)
(* waits for.  S is [ok, R, root, pending_trees, final_root_tree_id,       *)
(* serialized], serialized the paths in the order they became final.       *)
(***************************************************************************)
PendingTree(num_expected_children) ==
    [children |-> {}, remaining |-> num_expected_children]

init_pending_trees(snapshot_root_path, paths) ==
    [dir \in {snapshot_root_path} |->
        PendingTree(get_intermediate_paths(snapshot_root_path, paths).root_children_count)]

\* a final node goes into the tree of its directory
insert_finalized_node(S, dir, node) ==
    IF dir \notin DOMAIN S.pending_trees THEN [S EXCEPT !.ok = FALSE]
    ELSE [S EXCEPT !.pending_trees[dir].children = @ \cup {node},
                   !.pending_trees[dir].remaining = @ - 1]

\* a directory that waits for no more children is serialized and saved, and
\* becomes a final node of its own directory
RECURSIVE finalize_if_complete(_, _, _)
finalize_if_complete(S, dir, aged) ==
    IF ~S.ok \/ S.pending_trees[dir].remaining # 0 THEN S
    ELSE Once({IF ~saved.ok \/ dir = S.root
               THEN [S EXCEPT !.ok = saved.ok, !.R = saved.R,
                              !.pending_trees = Drop(@, {dir}),
                              !.final_root_tree_id = IF saved.ok THEN saved.id ELSE @,
                              !.serialized = Append(@, [path |-> dir, id |-> saved.id])]
               ELSE Once({finalize_if_complete(inserted, extract_parent(dir), aged) :
                             inserted \in {insert_finalized_node(
                                               [S EXCEPT !.R = saved.R,
                                                         !.pending_trees = Drop(@, {dir}),
                                                         !.serialized =
                                                             Append(@, [path |-> dir,
                                                                        id |-> saved.id])],
                                               extract_parent(dir),
                                               [name |-> file_name(dir), tree |-> saved.id])}}) :
                  saved \in {Tree_save_to_repo(S.R, S.pending_trees[dir].children, aged)}})

handle_processed_item(S, path, node, num_children, aged) ==
    IF node.tree # 0
    THEN finalize_if_complete(
             [S EXCEPT !.pending_trees = Put(@, path, PendingTree(num_children))], path, aged)
    ELSE finalize_if_complete(
             insert_finalized_node(
                 [S EXCEPT !.serialized = Append(@, [path |-> path, id |-> 0])],
                 extract_parent(path), node),
             extract_parent(path), aged)

(***************************************************************************)
(* The repository amend finds: a snapshot of source paths of the tree of   *)
(* the streamer tests, its trees saved bottom-up, flushed, and every pack  *)
(* written.                                                                *)
(***************************************************************************)
\* what a snapshot of the source paths stores below its root
StoredPaths(root, paths) ==
    {p \in create_tree :
        /\ Len(p) > Len(root)
        /\ starts_with(p, root)
        /\ \E source \in paths : starts_with(p, source) \/ starts_with(source, p)}

stored_children(dir, stored) ==
    SortPaths({p \in stored : Len(p) = Len(dir) + 1 /\ starts_with(p, dir)})

RECURSIVE save_stored_tree(_, _, _)
RECURSIVE save_stored_nodes(_, _, _, _)
save_stored_nodes(R, children, stored, nodes) ==
    IF children = <<>> THEN Tree_save_to_repo(R, nodes, FALSE)
    ELSE IF is_dir(Head(children))
    THEN Once({save_stored_nodes(sub.R, Tail(children), stored,
                                 nodes \cup {[name |-> file_name(Head(children)),
                                              tree |-> sub.id]}) :
                  sub \in {save_stored_tree(R, Head(children), stored)}})
    ELSE save_stored_nodes(R, Tail(children), stored,
                           nodes \cup {[name |-> file_name(Head(children)), tree |-> 0]})

save_stored_tree(R, dir, stored) == save_stored_nodes(R, stored_children(dir, stored), stored, {})

\* the pack saver has written every pack of its channel
RECURSIVE PackSaver_finish(_)
PackSaver_finish(R) ==
    IF R.pack_saver.queue = <<>> THEN [R EXCEPT !.pack_saver = PackSaver_none]
    ELSE PackSaver_finish(
             [R EXCEPT !.backend = Backend_write(
                                       @, Repository_get_path("Pack", Head(R.pack_saver.queue).id),
                                       Head(R.pack_saver.queue).data),
                       !.pack_saver.queue = Tail(@)])

StoredSnapshot(paths, size) ==
    Once({Once({[R |-> PackSaver_finish(flushed.R),
                 snapshot |-> [root |-> calculate_lcp(paths), paths |-> paths,
                               tree |-> saved.id]] :
                   flushed \in {Repository_flush(saved.R, FALSE, FALSE)}}) :
             saved \in {save_stored_tree(
                            [backend |-> EmptyMap, index |-> MasterIndex_new,
                             packers |-> [Data |-> Packer_new, Tree |-> Packer_new],
                             pack_saver |-> PackSaver_new, nonce |-> 1,
                             max_packer_size |-> size],
                            calculate_lcp(paths),
                            StoredPaths(calculate_lcp(paths), paths))}})

(***************************************************************************)
(* SpecAmend: amend with an exclude list rewrites the tree of the snapshot *)
(* (rewrite_snapshot_tree) while the pack saver runs.                      *)
(***************************************************************************)
\* two or more source paths, none inside another
AmendSources ==
    {paths \in SUBSET (create_tree \ {<<0>>}) :
        /\ Cardinality(paths) >= 2
        /\ Cardinality(paths) <= MaxSources
        /\ \A p, q \in paths : starts_with(p, q) => p = q}

InitAmend ==
    \E paths \in AmendSources, exclude \in PathSets(MaxExcludes), size \in PackSizes :
        \E stored \in {StoredSnapshot(paths, size)} :
            /\ backend = stored.R.backend
            /\ nonce = stored.R.nonce
            /\ \E order \in Orders(Backend_read_dir(stored.R.backend, "index")) :
                   index = Repository_load_master_index(stored.R.backend, MasterIndex_new,
                                                        order).index
            /\ packers = [Data |-> Packer_new, Tree |-> Packer_new]
            /\ pack_saver = PackSaver_none
            /\ thr = [t \in Threads |-> ThreadIdle]
            /\ main = [snapshot |-> stored.snapshot, exclude |-> exclude,
                       streamer |-> [ok |-> TRUE, stack |-> <<>>, exclude |-> <<>>],
                       pending_trees |-> EmptyMap, final_root_tree_id |-> 0]
                      @@ [MainClosed EXCEPT !.pc = "amend", !.cmd = "amend",
                                            !.pack_size = size]
            /\ fs = [src |-> NoFile, dst |-> NoFile]
            /\ hist = [serialized |-> <<>>, emitted |-> <<>>,
                       stored |-> StoredPaths(stored.snapshot.root, paths)]
                      @@ HistInit

\* rewrite_snapshot_tree up to its loop
AmendStart ==
    /\ main.pc = "amend"
    /\ \E exclude \in {SortPaths(main.exclude)} :
           \E paths \in {{p \in main.snapshot.paths : filter_path(p, exclude)}},
              streamer \in {SerializedNodeStreamer_new(Repo, main.snapshot.tree,
                                                       main.snapshot.root, exclude)} :
               /\ main' = [main EXCEPT
                              !.pc = IF streamer.ok THEN "amend_loop" ELSE "amend_failed",
                              !.streamer = streamer,
                              !.pending_trees = init_pending_trees(main.snapshot.root, paths)]
               /\ pack_saver' = IF streamer.ok THEN PackSaver_new ELSE pack_saver
    /\ UNCHANGED <<backend, index, packers, nonce, thr, fs, hist>>

\* one turn of the loop: the streamer's next item goes to the tree serializer;
\* flatten drops an item that is an error
AmendItem(aged) ==
    /\ main.pc = "amend_loop"
    /\ \E step \in {SerializedNodeStreamer_next(Repo, main.streamer)} :
           IF ~step.item.some
           THEN /\ main' = [main EXCEPT !.pc = "amend_flush", !.streamer = step.s]
                /\ aged = FALSE
                /\ UNCHANGED <<backend, index, packers, pack_saver, nonce, hist>>
           ELSE IF ~step.item.ok
           THEN /\ main' = [main EXCEPT !.streamer = step.s]
                /\ aged = FALSE
                /\ UNCHANGED <<backend, index, packers, pack_saver, nonce, hist>>
           ELSE \E S \in {handle_processed_item(
                              [ok |-> TRUE, R |-> Repo, root |-> main.snapshot.root,
                               pending_trees |-> main.pending_trees,
                               final_root_tree_id |-> main.final_root_tree_id,
                               serialized |-> hist.serialized],
                              step.item.path, step.item.node, step.item.num_children, aged)} :
                    /\ Store(S.R)
                    /\ main' = [main EXCEPT !.pc = IF S.ok THEN "amend_loop" ELSE "amend_failed",
                                            !.streamer = step.s,
                                            !.pending_trees = S.pending_trees,
                                            !.final_root_tree_id = S.final_root_tree_id]
                    /\ hist' = [hist EXCEPT !.serialized = S.serialized,
                                            !.emitted =
                                                Append(@, [path |-> step.item.path,
                                                           num_children |->
                                                               step.item.num_children])]
    /\ UNCHANGED <<thr, fs>>

AmendFlush(aged_data, aged_tree) ==
    /\ main.pc = "amend_flush"
    /\ \E flushed \in {Repository_flush(Repo, aged_data, aged_tree)} :
           /\ Store(flushed.R)
           /\ main' = [main EXCEPT !.pc = IF flushed.ok THEN "flushed" ELSE "amend_failed",
                                   !.flush_ok = flushed.ok]
    /\ UNCHANGED <<thr, fs, hist>>

\* after finalize_pack_saver: the new root tree, or "Failed to serialize new
\* snapshot tree"
AmendReturn ==
    /\ main.pc = "finished"
    /\ main.cmd = "amend"
    /\ main' = [main EXCEPT !.pc = IF main.final_root_tree_id # 0 THEN "amend_done"
                                   ELSE "amend_failed",
                            !.snapshot.tree = IF main.final_root_tree_id # 0
                                              THEN main.final_root_tree_id ELSE @]
    /\ UNCHANGED <<backend, index, packers, pack_saver, nonce, thr, fs, hist>>

NextAmend ==
    \/ AmendStart
    \/ \E aged \in BOOLEAN : AmendItem(aged)
    \/ \E aged_data, aged_tree \in BOOLEAN : AmendFlush(aged_data, aged_tree)
    \/ FinalizePackSaver
    \/ AmendReturn
    \/ SaverTake
    \/ SaverWritten
    \/ SaverWriteError

SpecAmend == InitAmend /\ [][NextAmend]_vars

(***************************************************************************)
(* SpecAmendFile: the snapshot files of amend.  run collects the snapshots *)
(* to amend and amend saves each amended snapshot and deletes its original;*)
(* the process may stop between any two steps.  main.args.description is 0 *)
(* when the option is absent, a snapshot's description is 0 when it has    *)
(* none.                                                                   *)
(***************************************************************************)
MaxAmendSnapshots == 2

SnapshotPlain(description, amends) ==
    [kind |-> "snapshot",
     body |-> <<[tree |-> TREE_ID_BASE, description |-> description, amends |-> amends]>>]

\* a repository with the snapshot files of earlier runs
RECURSIVE SavedSnapshots(_, _)
SavedSnapshots(R, descriptions) ==
    IF descriptions = <<>> THEN R
    ELSE SavedSnapshots(Repository_save_file(R, "Snapshot",
                                             SnapshotPlain(Head(descriptions), 0)).R,
                        Tail(descriptions))

AmendArgs ==
    {args \in [all : BOOLEAN, keep_old : BOOLEAN, description : 0..1,
               clear_description : BOOLEAN, exclude : BOOLEAN] :
        ~(args.description # 0 /\ args.clear_description)}

InitAmendFile ==
    \E n \in 1..MaxAmendSnapshots, args \in AmendArgs :
        \E descriptions \in [1..n -> 0..1] :
            \E R \in {SavedSnapshots([backend |-> EmptyMap, index |-> MasterIndex_new,
                                      packers |-> [Data |-> Packer_new, Tree |-> Packer_new],
                                      pack_saver |-> PackSaver_none, nonce |-> 1,
                                      max_packer_size |-> 1], descriptions)} :
                /\ backend = R.backend
                /\ nonce = R.nonce
                /\ index = MasterIndex_new
                /\ packers = [Data |-> Packer_new, Tree |-> Packer_new]
                /\ pack_saver = PackSaver_none
                /\ thr = [t \in Threads |-> ThreadIdle]
                /\ main = [pc |-> "amend_run", args |-> args, snapshots |-> <<>>,
                           origin_snapshot_id |-> 0, snapshot |-> SnapshotPlain(0, 0),
                           new_id |-> 0]
                /\ fs = [src |-> NoFile, dst |-> NoFile]
                /\ hist = [originals |-> {path[2] : path \in Backend_read_dir(R.backend,
                                                                             "snapshots")},
                           amended |-> EmptyMap]

\* the condition under which amend deletes the original snapshot file
amend_deletes_always(new_id, origin_snapshot_id, keep_old) == TRUE

amend_deletes_origin(new_id, origin_snapshot_id, keep_old) ==
    new_id # origin_snapshot_id /\ ~keep_old

\* run up to its loop: every snapshot with --all, else the one that was named
AmendRun(snapshots) ==
    /\ main.pc = "amend_run"
    /\ IF main.args.all THEN Len(snapshots) = Cardinality(hist.originals)
       ELSE Len(snapshots) = 1
    /\ main' = [main EXCEPT !.pc = "amend_next", !.snapshots = snapshots]
    /\ UNCHANGED <<backend, index, packers, pack_saver, nonce, thr, fs, hist>>

\* the head of amend: the amended snapshot names its origin and takes the new
\* description
AmendNext ==
    /\ main.pc = "amend_next"
    /\ IF main.snapshots = <<>>
       THEN main' = [main EXCEPT !.pc = "amend_finished"]
       ELSE \E id \in {Last(main.snapshots)} :
                \E snapshot \in {SecureStorage_decode(
                                       backend[Repository_get_path("Snapshot", id)].data
                                   ).plain.body[1]} :
                    main' = [main EXCEPT
                                !.pc = IF main.args.exclude THEN "amend_rewrite"
                                       ELSE "amend_save",
                                !.snapshots = Pop(@),
                                !.origin_snapshot_id = id,
                                !.snapshot =
                                    SnapshotPlain(
                                        IF main.args.description # 0
                                        THEN main.args.description
                                        ELSE IF main.args.clear_description THEN 0
                                        ELSE snapshot.description,
                                        id)]
    /\ UNCHANGED <<backend, index, packers, pack_saver, nonce, thr, fs, hist>>

\* rewrite_snapshot_tree returns Ok or an error; it touches no snapshot file
AmendRewrite(ok) ==
    /\ main.pc = "amend_rewrite"
    /\ main' = [main EXCEPT !.pc = IF ok THEN "amend_save" ELSE "amend_failed"]
    /\ UNCHANGED <<backend, index, packers, pack_saver, nonce, thr, fs, hist>>

\* save_file up to the write of the temporary file
AmendSaveWrite ==
    /\ main.pc = "amend_save"
    /\ \E data \in {SecureStorage_encode(main.snapshot, nonce)} :
           \E path \in {Repository_get_path("Snapshot", ID_from_encoded(data))} :
               /\ backend' = Backend_write(backend, <<path[1], path[2], "tmp">>, data)
               /\ main' = [main EXCEPT !.pc = "amend_saving", !.new_id = ID_from_encoded(data)]
    /\ nonce' = nonce + 1
    /\ UNCHANGED <<index, packers, pack_saver, thr, fs, hist>>

\* the rename that ends save_with_rename, and the return of save_file
AmendSaveRename ==
    /\ main.pc = "amend_saving"
    /\ \E path \in {Repository_get_path("Snapshot", main.new_id)} :
           backend' = Backend_rename(backend, <<path[1], path[2], "tmp">>, path)
    /\ main' = [main EXCEPT !.pc = "amend_saved"]
    /\ hist' = [hist EXCEPT !.amended = Put(@, main.origin_snapshot_id, main.new_id)]
    /\ UNCHANGED <<index, packers, pack_saver, nonce, thr, fs>>

\* the end of amend: delete_file of the original, which may fail
AmendDelete(ok) ==
    /\ main.pc = "amend_saved"
    /\ IF amend_deletes_origin(main.new_id, main.origin_snapshot_id, main.args.keep_old)
       THEN /\ backend' = IF ok
                          THEN Backend_remove_file(
                                   backend,
                                   Repository_get_path("Snapshot", main.origin_snapshot_id))
                          ELSE backend
            /\ main' = [main EXCEPT !.pc = IF ok THEN "amend_next" ELSE "amend_failed"]
       ELSE /\ ok
            /\ main' = [main EXCEPT !.pc = "amend_next"]
            /\ UNCHANGED backend
    /\ UNCHANGED <<index, packers, pack_saver, nonce, thr, fs, hist>>

\* the process is stopped between two steps
AmendStopped ==
    /\ main.pc \in {"amend_run", "amend_next", "amend_rewrite", "amend_save", "amend_saving",
                    "amend_saved"}
    /\ main' = [main EXCEPT !.pc = "amend_stopped"]
    /\ UNCHANGED <<backend, index, packers, pack_saver, nonce, thr, fs, hist>>

NextAmendFile ==
    \/ \E snapshots \in UNION {Orders(set) : set \in SUBSET hist.originals} : AmendRun(snapshots)
    \/ AmendNext
    \/ \E ok \in BOOLEAN : AmendRewrite(ok)
    \/ AmendSaveWrite
    \/ AmendSaveRename
    \/ \E ok \in BOOLEAN : AmendDelete(ok)
    \/ AmendStopped

SpecAmendFile == InitAmendFile /\ [][NextAmendFile]_vars

(***************************************************************************)
(* The first code base (src/backup.rs, src/storage.rs): a Repo with Full   *)
(* and Delta snapshots over a store of chunks.  The repository directory   *)
(* is backend = [snapshots, data]: the snapshot files by ID and the chunk  *)
(* files by hash.  main is the Repo: refs and config.  fs.src is the       *)
(* source directory, a map from file name to content, and fs.dst the       *)
(* directory of the last restore.  A byte is 0 or 1.                       *)
(***************************************************************************)
LEGACY_CHUNK_SIZE == 2

MaxBackups == 3

MaxConsecutiveDeltas == 1

LegacyFiles == {1, 2}

LegacyContents == {<<1>>, <<1, 0, 1>>, <<0, 0, 1>>}

\* the states of the source directory: file 1 with any of the contents, file 2
\* with the first, each of them there or not
SourceDirs ==
    {dir \in UNION {[names -> LegacyContents] : names \in SUBSET LegacyFiles} :
        2 \in DOMAIN dir => dir[2] = <<1>>}

\* utils::calculate_hash: no two chunks of the model have the same hash
calculate_hash(data) == HashDigits([i \in DOMAIN data |-> data[i] + 1], 3)

\* every file of the model is in the smallest class of the table
get_chunk_size(file_size) == LEGACY_CHUNK_SIZE

\* the reads of the loop of store_file: buffers of chunk_size bytes, the last
\* one shorter
RECURSIVE read_chunks(_, _)
read_chunks(content, chunk_size) ==
    IF content = <<>> THEN <<>>
    ELSE IF Len(content) <= chunk_size THEN <<content>>
    ELSE <<SubSeq(content, 1, chunk_size)>>
             \o read_chunks(SubSeq(content, chunk_size + 1, Len(content)), chunk_size)

\* chunk.iter().all(|&b| b == 0)
all_zero(chunk) == \A i \in DOMAIN chunk : chunk[i] = 0

\* the loop of store_file over the chunks read: a chunk filled with zeros is
\* skipped, any other chunk is named in the list and stored if it is new
RECURSIVE store_chunks(_, _, _)
store_chunks(chunks, data, chunk_hashes) ==
    IF chunks = <<>> THEN [chunk_hashes |-> chunk_hashes, data |-> data]
    ELSE IF all_zero(Head(chunks)) THEN store_chunks(Tail(chunks), data, chunk_hashes)
    ELSE store_chunks(Tail(chunks),
                      IF calculate_hash(Head(chunks)) \in DOMAIN data THEN data
                      ELSE Put(data, calculate_hash(Head(chunks)), Head(chunks)),
                      Append(chunk_hashes, calculate_hash(Head(chunks))))

\* storage::store_file: the chunk list and the data directory it leaves
store_file(content, data) ==
    store_chunks(read_chunks(content, get_chunk_size(Len(content))), data, <<>>)

DeltaChunks(chunks) == [kind |-> "Chunks", chunks |-> chunks]

DeltaDeleted == [kind |-> "Deleted", chunks |-> <<>>]

\* storage::restore_file: the content written to the destination file
RECURSIVE write_chunks(_, _, _)
write_chunks(chunks, data, written) ==
    IF chunks = <<>> THEN [ok |-> TRUE, content |-> written]
    ELSE IF Head(chunks) \notin DOMAIN data THEN [ok |-> FALSE, content |-> written]
    ELSE write_chunks(Tail(chunks), data, written \o data[Head(chunks)])

restore_file(file, data) ==
    IF file.delta.kind = "Chunks" THEN write_chunks(file.delta.chunks, data, <<>>)
    ELSE [ok |-> FALSE, content |-> <<>>]

\* the Delta snapshots at the end of the list
RECURSIVE trailing_deltas(_)
trailing_deltas(snapshots) ==
    IF snapshots = <<>> \/ Last(snapshots).kind # "Delta" THEN 0
    ELSE 1 + trailing_deltas(Pop(snapshots))

determine_snapshot_kind_inclusive(refs, config) ==
    IF refs = <<>> THEN "Full"
    ELSE IF trailing_deltas(refs) <= config.max_consecutive_deltas THEN "Delta"
    ELSE "Full"

determine_snapshot_kind(refs, config) ==
    IF refs = <<>> THEN "Full"
    ELSE IF trailing_deltas(refs) < config.max_consecutive_deltas THEN "Delta"
    ELSE "Full"

\* get_delta_segment: the IDs from the last Full snapshot at or before
\* snapshot_id up to snapshot_id; an Option
RECURSIVE segment_back(_, _)
segment_back(snapshots, position) ==
    IF position = 0 THEN <<>>
    ELSE IF snapshots[position].kind = "Full" THEN <<snapshots[position].id>>
    ELSE Append(segment_back(snapshots, position - 1), snapshots[position].id)

get_delta_segment(refs, snapshot_id) ==
    IF ~\E i \in DOMAIN refs : refs[i].id = snapshot_id THEN <<>>
    ELSE <<segment_back(refs, CHOOSE i \in DOMAIN refs : refs[i].id = snapshot_id)>>

\* the loop of calculate_status_at_snapshot over the files of one snapshot
apply_snapshot_files(files, snapshot_files) ==
    [name \in {n \in DOMAIN files : n \notin DOMAIN snapshot_files}
              \cup {n \in DOMAIN snapshot_files : snapshot_files[n].delta.kind # "Deleted"} |->
        IF name \in DOMAIN snapshot_files THEN snapshot_files[name] ELSE files[name]]

RECURSIVE apply_segment(_, _, _)
apply_segment(snapshots, segment, files) ==
    IF segment = <<>> THEN files
    ELSE apply_segment(snapshots, Tail(segment),
                       apply_snapshot_files(files, snapshots[Head(segment)].files))

calculate_status_at_snapshot(snapshots, refs, snapshot_id) ==
    IF get_delta_segment(refs, snapshot_id) = <<>> THEN [ok |-> FALSE, files |-> EmptyMap]
    ELSE [ok |-> TRUE,
          files |-> apply_segment(snapshots, get_delta_segment(refs, snapshot_id)[1], EmptyMap)]

get_last_snapshot_files(snapshots, refs) ==
    IF refs = <<>> THEN EmptyMap
    ELSE calculate_status_at_snapshot(snapshots, refs, Last(refs).id).files

file_has_changed(name, chunk_hashes, last_snapshot_files) ==
    IF name \notin DOMAIN last_snapshot_files THEN TRUE
    ELSE IF last_snapshot_files[name].delta.kind = "Deleted" THEN TRUE
    ELSE last_snapshot_files[name].delta.chunks # chunk_hashes

\* process_source_files over the source files that are left: every file is
\* stored, a file that has changed goes into the snapshot
RECURSIVE process_source_files(_, _, _, _, _)
process_source_files(src, source_files, last_snapshot_files, data, snapshot_files) ==
    IF source_files = <<>> THEN [data |-> data, snapshot_files |-> snapshot_files]
    ELSE LET name == Head(source_files)
             storage_result == store_file(src[name], data)
         IN process_source_files(
                src, Tail(source_files), last_snapshot_files, storage_result.data,
                IF file_has_changed(name, storage_result.chunk_hashes, last_snapshot_files)
                THEN Put(snapshot_files, name,
                         [path |-> name, delta |-> DeltaChunks(storage_result.chunk_hashes)])
                ELSE snapshot_files)

\* Repo::new in an empty directory, with the config the repository is given
InitLegacy ==
    /\ backend = [snapshots |-> EmptyMap, data |-> EmptyMap]
    /\ index = MasterIndex_new
    /\ packers = [Data |-> Packer_new, Tree |-> Packer_new]
    /\ pack_saver = PackSaver_none
    /\ nonce = 1
    /\ thr = [t \in Threads |-> ThreadIdle]
    /\ main \in {[refs |-> <<>>, config |-> [max_consecutive_deltas |-> m]] :
                    m \in 0..MaxConsecutiveDeltas}
    /\ fs \in {[src |-> dir, dst |-> EmptyMap] : dir \in SourceDirs}
    /\ hist = [sources |-> <<>>, stored |-> EmptyMap,
               restored |-> [some |-> FALSE, id |-> 0, ok |-> FALSE]]

\* the user changes the source directory
LegacyEdit(dir) ==
    /\ ~hist.restored.some
    /\ Len(main.refs) < MaxBackups
    /\ dir # fs.src
    /\ fs' = [fs EXCEPT !.src = dir]
    /\ UNCHANGED <<backend, index, packers, pack_saver, nonce, thr, main, hist>>

\* Repo::backup; hist keeps the source directory of every backup and the
\* chunk lists store_file returned in the last one
LegacyBackup ==
    /\ ~hist.restored.some
    /\ Len(main.refs) < MaxBackups
    /\ \E processed \in {process_source_files(
                             fs.src, SetToSeq(DOMAIN fs.src),
                             get_last_snapshot_files(backend.snapshots, main.refs),
                             backend.data, EmptyMap)},
          snapshot_id \in {Len(main.refs)},
          snapshot_kind \in {determine_snapshot_kind(main.refs, main.config)} :
           /\ backend' = [snapshots |-> Put(backend.snapshots, snapshot_id,
                                            [id |-> snapshot_id, kind |-> snapshot_kind,
                                             files |-> processed.snapshot_files]),
                          data |-> processed.data]
           /\ main' = [main EXCEPT !.refs = Append(@, [id |-> snapshot_id,
                                                       kind |-> snapshot_kind])]
           /\ hist' = [hist EXCEPT
                          !.sources = Append(@, fs.src),
                          !.stored = [name \in DOMAIN fs.src |->
                                         store_file(fs.src[name], backend.data).chunk_hashes]]
    /\ UNCHANGED <<index, packers, pack_saver, nonce, thr, fs>>

\* the files restore_snapshot writes: the loop stops at the first file that fails
RestoredFiles(files, data) ==
    [name \in DOMAIN files |-> restore_file(files[name], data).content]

\* Repo::restore_snapshot into an empty directory, the last step of a run
LegacyRestore(snapshot_id) ==
    /\ ~hist.restored.some
    /\ \E status \in {calculate_status_at_snapshot(backend.snapshots, main.refs, snapshot_id)} :
           /\ fs' = [fs EXCEPT !.dst = IF status.ok THEN RestoredFiles(status.files, backend.data)
                                       ELSE EmptyMap]
           /\ hist' = [hist EXCEPT
                          !.restored =
                              [some |-> TRUE, id |-> snapshot_id,
                               ok |-> /\ status.ok
                                      /\ \A name \in DOMAIN status.files :
                                             restore_file(status.files[name], backend.data).ok]]
    /\ UNCHANGED <<backend, index, packers, pack_saver, nonce, thr, main>>

NextLegacy ==
    \/ \E dir \in SourceDirs : LegacyEdit(dir)
    \/ LegacyBackup
    \/ \E snapshot_id \in 0..MaxBackups : LegacyRestore(snapshot_id)

SpecLegacy == InitLegacy /\ [][NextLegacy]_vars

(***************************************************************************)
(* SpecPacker: add_blob and flush calls on the two packers, in any order.  *)
(***************************************************************************)
MaxBlobs == 3

InitPacker ==
    /\ backend = EmptyMap
    /\ index = MasterIndex_new
    /\ packers = [Data |-> Packer_new, Tree |-> Packer_new]
    /\ pack_saver = PackSaver_none
    /\ nonce = 1
    /\ thr = [t \in Threads |-> ThreadIdle]
    /\ main = [MainClosed EXCEPT !.pc = "packer", !.cmd = "packer"]
    /\ fs = [src |-> NoFile, dst |-> NoFile]
    /\ hist = [flushed |-> [some |-> FALSE]]

PackerAddBlob(blob_type, plain) ==
    /\ nonce <= MaxBlobs
    /\ \E data \in {SecureStorage_encode(plain, nonce)} :
           packers' = [packers EXCEPT ![blob_type] =
                          Packer_add_blob(@, ID_from_content(plain), blob_type, data,
                                          RawLen(plain), data.len)]
    /\ nonce' = nonce + 1
    /\ UNCHANGED <<backend, index, pack_saver, thr, main, fs, hist>>

PackerFlush(blob_type) ==
    /\ packers[blob_type] # Packer_new
    /\ hist' = [hist EXCEPT !.flushed = Packer_flush(packers[blob_type], 0)]
    /\ packers' = [packers EXCEPT ![blob_type] = Packer_new]
    /\ UNCHANGED <<backend, index, pack_saver, nonce, thr, main, fs>>

NextPacker ==
    \/ \E plain \in {DataBlob(bytes) : bytes \in Contents} : PackerAddBlob("Data", plain)
    \/ \E plain \in {DirTreeBlob(nodes) : nodes \in SUBSET {[name |-> 1, tree |-> 0],
                                                           [name |-> 2, tree |-> 0]}} :
           PackerAddBlob("Tree", plain)
    \/ \E blob_type \in {"Data", "Tree"} : PackerFlush(blob_type)

SpecPacker == InitPacker /\ [][NextPacker]_vars

(***************************************************************************)
(* SpecFile: processes save, delete and look up snapshot files.  A file    *)
(* name is the ID in hexadecimal, written here with 2 * ID_LENGTH decimal  *)
(* digits, followed by the extension.                                      *)
(***************************************************************************)
MaxSaves == 2

ID_LENGTH == 2

ID_to_hex(id) == [i \in 1..(2 * ID_LENGTH) |-> (id \div (10 ^ (2 * ID_LENGTH - i))) % 10]

\* ID::from_hex of a file name: an error unless the name is an ID and nothing more
ID_from_hex(path) == [ok |-> path[3] = "", id |-> path[2]]

\* str::starts_with of a file name and a prefix no longer than an ID
filename_starts_with(path, prefix) == starts_with(ID_to_hex(path[2]), prefix)

Repository_list_files(b, file_type) == Backend_read_dir(b, Repository_get_path(file_type, 0)[1])

\* the loop of find over the listed files: the first match is kept, a second
\* match is the error "ambiguous"
RECURSIVE find_matches(_, _, _)
find_matches(type_files, prefix, matches) ==
    IF type_files = <<>> THEN [ok |-> TRUE, matches |-> matches]
    ELSE IF ~filename_starts_with(Head(type_files), prefix)
    THEN find_matches(Tail(type_files), prefix, matches)
    ELSE IF matches = <<>>
    THEN find_matches(Tail(type_files), prefix, <<Head(type_files)>>)
    ELSE [ok |-> FALSE, matches |-> matches]

NotFound == [ok |-> FALSE, id |-> 0, path |-> <<>>]

\* Repository::find, type_files being the files in the order list_files returns them
Repository_find(type_files, prefix) ==
    IF Len(prefix) > 2 * ID_LENGTH \/ prefix = <<>> THEN NotFound
    ELSE LET found == find_matches(type_files, prefix, <<>>)
         IN IF ~found.ok \/ found.matches = <<>> THEN NotFound
            ELSE IF ~ID_from_hex(found.matches[1]).ok THEN NotFound
            ELSE [ok |-> TRUE, id |-> ID_from_hex(found.matches[1]).id,
                  path |-> found.matches[1]]

\* the prefixes a user may type
Prefixes == UNION {[1..n -> 0..2] : n \in 0..(2 * ID_LENGTH + 1)}

\* the plaintext of a snapshot: its tree and its description
SnapshotContents ==
    {[kind |-> "snapshot", body |-> <<[tree |-> TREE_ID_BASE, description |-> d]>>] :
        d \in 0..1}

InitFile ==
    /\ backend = EmptyMap
    /\ index = MasterIndex_new
    /\ packers = [Data |-> Packer_new, Tree |-> Packer_new]
    /\ pack_saver = PackSaver_none
    /\ nonce = 1
    /\ thr = [t \in Threads |-> ThreadIdle]
    /\ main = [save |-> [path |-> <<>>, plain |-> None, id |-> 0]]
              @@ [MainClosed EXCEPT !.cmd = "file"]
    /\ fs = [src |-> NoFile, dst |-> NoFile]
    /\ hist = [saved |-> {}, found |-> [some |-> FALSE], opened |-> [some |-> FALSE]]

\* save_file up to the write of the temporary file
SaveFileWrite(file_type, plain) ==
    /\ main.pc = "closed"
    /\ nonce <= MaxSaves
    /\ \E data \in {SecureStorage_encode(plain, nonce)} :
           \E path \in {Repository_get_path(file_type, ID_from_encoded(data))} :
               /\ backend' = Backend_write(backend, <<path[1], path[2], "tmp">>, data)
               /\ main' = [main EXCEPT !.pc = "saving",
                                       !.save = [path |-> path, plain |-> plain,
                                                 id |-> ID_from_encoded(data)]]
    /\ nonce' = nonce + 1
    /\ UNCHANGED <<index, packers, pack_saver, thr, fs, hist>>

\* the rename that ends save_with_rename, and the return of save_file
SaveFileRename ==
    /\ main.pc = "saving"
    /\ backend' = Backend_rename(backend, <<main.save.path[1], main.save.path[2], "tmp">>,
                                 main.save.path)
    /\ main' = [main EXCEPT !.pc = "closed"]
    /\ hist' = [hist EXCEPT !.saved = @ \cup {[plain |-> main.save.plain, id |-> main.save.id]}]
    /\ UNCHANGED <<index, packers, pack_saver, nonce, thr, fs>>

\* the process is stopped between the write and the rename
SaveFileStopped ==
    /\ main.pc = "saving"
    /\ main' = [main EXCEPT !.pc = "closed"]
    /\ UNCHANGED <<backend, index, packers, pack_saver, nonce, thr, fs, hist>>

DeleteFile(id) ==
    /\ main.pc = "closed"
    /\ Backend_exists(backend, Repository_get_path("Snapshot", id))
    /\ backend' = Backend_remove_file(backend, Repository_get_path("Snapshot", id))
    /\ UNCHANGED <<index, packers, pack_saver, nonce, thr, main, fs, hist>>

\* a process looks a prefix up; hist keeps the last lookup and the files it met
Find(prefix, type_files) ==
    /\ main.pc = "closed"
    /\ ~hist.found.some
    /\ ~hist.opened.some
    /\ hist' = [hist EXCEPT !.found = [some |-> TRUE, prefix |-> prefix,
                                       files |-> Range(type_files),
                                       result |-> Repository_find(type_files, prefix)]]
    /\ UNCHANGED <<backend, index, packers, pack_saver, nonce, thr, main, fs>>

\* list_snapshot_ids over the files in the order read_dir lists them: every
\* file name goes through ID::from_hex with ?
Repository_list_snapshot_ids(paths) ==
    IF \E i \in DOMAIN paths : ~ID_from_hex(paths[i]).ok THEN [ok |-> FALSE, ids |-> {}]
    ELSE [ok |-> TRUE, ids |-> {ID_from_hex(paths[i]).id : i \in DOMAIN paths}]

\* a process opens the repository and lists its snapshots; hist keeps what it
\* got and the files it met
OpenAndList(index_files, snapshot_files) ==
    /\ main.pc = "closed"
    /\ ~hist.opened.some
    /\ ~hist.found.some
    /\ hist' = [hist EXCEPT !.opened =
                    [some |-> TRUE, files |-> Range(index_files) \cup Range(snapshot_files),
                     loaded |-> Repository_load_master_index(backend, MasterIndex_new,
                                                             index_files),
                     listed |-> Repository_list_snapshot_ids(snapshot_files)]]
    /\ UNCHANGED <<backend, index, packers, pack_saver, nonce, thr, main, fs>>

\* the plaintext of an index file that names one pack with one blob
IndexContents ==
    {[kind |-> "index",
      body |-> <<[id |-> 1, blobs |-> {[id |-> 1, blob_type |-> "Data", offset |-> 0,
                                        length |-> 1, raw_length |-> 1]}]>>]}

NextFile ==
    \/ \E plain \in SnapshotContents : SaveFileWrite("Snapshot", plain)
    \/ \E plain \in IndexContents : SaveFileWrite("Index", plain)
    \/ \E index_files \in Orders(Repository_list_files(backend, "Index")),
          snapshot_files \in Orders(Repository_list_files(backend, "Snapshot")) :
           OpenAndList(index_files, snapshot_files)
    \/ SaveFileRename
    \/ SaveFileStopped
    \/ \E id \in {path[2] : path \in Repository_list_files(backend, "Snapshot")} : DeleteFile(id)
    \/ \E prefix \in Prefixes, type_files \in Orders(Repository_list_files(backend, "Snapshot")) :
           Find(prefix, type_files)

SpecFile == InitFile /\ [][NextFile]_vars

(***************************************************************************)
(* SpecInit: init and try_open on a local backend.  Here the backend is    *)
(* the directory tree under the repository root, [root, dirs, files], and  *)
(* fs holds the external key file.  A password is a number, a key file     *)
(* wraps the master key under the password it was generated with.          *)
(***************************************************************************)
NumPasswords == 2

THIS_REPOSITORY_VERSION == 1
OBJECTS_DIR_FANOUT == 2
MAX_PASSWORD_RETRIES == 3

Passwords == 1..NumPasswords
\* Option<String>: no password, or one
OptionalPasswords == {<<>>} \cup {<<p>> : p \in Passwords}
MasterKeys == {1, 2}
KeyfilePaths == {None, "ext_keyfile"}

LocalFS_new(exists) == [root |-> exists, dirs |-> {}, files |-> EmptyMap]

LocalFS_root_exists_never(b) == FALSE

LocalFS_root_exists(b) == b.root

\* the parent directory of a path of the backend exists
parent_exists(b, path) == b.root /\ (Len(path) = 1 \/ <<path[1]>> \in b.dirs)

\* create, create_dir and write: [ok, b]
LocalFS_create(b) == [ok |-> TRUE, b |-> [b EXCEPT !.root = TRUE]]

LocalFS_create_dir(b, path) ==
    IF ~parent_exists(b, path) \/ path \in b.dirs \/ path \in DOMAIN b.files
    THEN [ok |-> FALSE, b |-> b]
    ELSE [ok |-> TRUE, b |-> [b EXCEPT !.dirs = @ \cup {path}]]

LocalFS_write(b, path, contents) ==
    IF ~parent_exists(b, path) \/ path \in b.dirs
    THEN [ok |-> FALSE, b |-> b]
    ELSE [ok |-> TRUE, b |-> [b EXCEPT !.files = Put(@, path, contents)]]

LocalFS_read_dir(b, path) ==
    IF path \notin b.dirs THEN [ok |-> FALSE, paths |-> {}]
    ELSE [ok |-> TRUE,
          paths |-> {p \in b.dirs \cup DOMAIN b.files : Len(p) = 2 /\ p[1] = path[1]}]

\* keys: the key file wraps the master key under a key derived from the password
generate_key_file(pass, master_key) ==
    [salt |-> 1, encrypted_key |-> [password |-> pass, master_key |-> master_key]]

decrypt_key_file(pass, keyfile) ==
    IF keyfile.encrypted_key.password = pass
    THEN [ok |-> TRUE, key |-> keyfile.encrypted_key.master_key]
    ELSE [ok |-> FALSE, key |-> 0]

\* ID::from_content of a compressed key file
KeyFile_id(keyfile) ==
    HashDigits(<<keyfile.encrypted_key.password, keyfile.encrypted_key.master_key>>, 3)

\* the key files retrieve_master_key tries: the external one, or those in keys/
candidate_key_files(b, f, key_file_path) ==
    IF key_file_path # None
    THEN Range(f.keyfile)
    ELSE {b.files[p] : p \in {q \in LocalFS_read_dir(b, <<"keys">>).paths : q \in DOMAIN b.files}}

retrieve_master_key(pass, key_file_path, b, f) ==
    LET keys == {decrypt_key_file(pass, kf).key :
                    kf \in {c \in candidate_key_files(b, f, key_file_path) :
                               decrypt_key_file(pass, c).ok}}
    IN IF keys = {} THEN [ok |-> FALSE, key |-> 0]
       ELSE [ok |-> TRUE, key |-> CHOOSE k \in keys : TRUE]

\* an envelope sealed with a master key opens with that key only
SecureStorage_encode_with_key(key, plain) == [key |-> key, sealed |-> plain]

SecureStorage_decode_with_key(key, enc) ==
    IF enc.key = key THEN [ok |-> TRUE, plain |-> enc.sealed]
    ELSE [ok |-> FALSE, plain |-> None]

\* format!("{n:0>OBJECTS_DIR_FANOUT$x}"): the hexadecimal digits of n
hex_name(n) ==
    [i \in 1..OBJECTS_DIR_FANOUT |-> (n \div (16 ^ (OBJECTS_DIR_FANOUT - i))) % 16]

num_folders == 2 ^ (4 * OBJECTS_DIR_FANOUT)

\* where init writes the key file: the external path, or keys/<id>
write_keyfile_twice(b, f, keyfile_path, keyfile) ==
    [ok |-> LocalFS_write(b, <<"keys", KeyFile_id(keyfile)>>, keyfile).ok,
     b |-> LocalFS_write(b, <<"keys", KeyFile_id(keyfile)>>, keyfile).b,
     f |-> IF keyfile_path # None THEN [f EXCEPT !.keyfile = <<keyfile>>] ELSE f]

write_keyfile(b, f, keyfile_path, keyfile) ==
    IF keyfile_path # None
    THEN [ok |-> TRUE, b |-> b, f |-> [f EXCEPT !.keyfile = <<keyfile>>]]
    ELSE [ok |-> LocalFS_write(b, <<"keys", KeyFile_id(keyfile)>>, keyfile).ok,
          b |-> LocalFS_write(b, <<"keys", KeyFile_id(keyfile)>>, keyfile).b,
          f |-> f]

\* the loop of init over the subdirectories of objects/; it stops at the
\* first create_dir that fails, stop being the one an I/O error hits
create_object_dirs(b, stop) ==
    LET failing == {n \in 0..(num_folders - 1) :
                       n = stop \/ ~LocalFS_create_dir(b, <<"objects", hex_name(n)>>).ok}
        created == {n \in 0..(num_folders - 1) : \A m \in failing : n < m}
    IN [ok |-> failing = {},
        b |-> [b EXCEPT !.dirs = @ \cup {<<"objects", hex_name(n)>> : n \in created}]]

\* the operations of init on the backend after the root check, in order
init_ops(pass, keyfile_path, master_key) ==
    <<[op |-> "create"],
      [op |-> "create_dir", path |-> <<"keys">>],
      [op |-> "write_keyfile", keyfile |-> generate_key_file(pass, master_key)],
      [op |-> "write", path |-> <<"manifest">>,
       contents |-> SecureStorage_encode_with_key(
                        master_key, [version |-> THIS_REPOSITORY_VERSION])],
      [op |-> "create_dir", path |-> <<"objects">>],
      [op |-> "create_object_dirs"],
      [op |-> "create_dir", path |-> <<"snapshots">>],
      [op |-> "create_dir", path |-> <<"index">>]>>

apply_op(s, o, keyfile_path, stop) ==
    IF o.op = "create" THEN [f |-> s.f] @@ LocalFS_create(s.b)
    ELSE IF o.op = "create_dir" THEN [f |-> s.f] @@ LocalFS_create_dir(s.b, o.path)
    ELSE IF o.op = "write" THEN [f |-> s.f] @@ LocalFS_write(s.b, o.path, o.contents)
    ELSE IF o.op = "create_object_dirs" THEN [f |-> s.f] @@ create_object_dirs(s.b, stop)
    ELSE write_keyfile(s.b, s.f, keyfile_path, o.keyfile)

\* no I/O error
NoFault == [op |-> 0, n |-> num_folders]

\* the operations up to the first that fails; fault.op is the operation an I/O
\* error hits, fault.n the subdirectory when that operation is the loop
RECURSIVE apply_ops(_, _, _, _, _)
apply_ops(s, ops, i, fault, keyfile_path) ==
    IF i > Len(ops) THEN s
    ELSE IF i = fault.op /\ ops[i].op # "create_object_dirs" THEN [s EXCEPT !.ok = FALSE]
    ELSE LET t == Once({apply_op(s, o, keyfile_path, fault.n) : o \in {ops[i]}})
         IN IF ~t.ok THEN t ELSE apply_ops(t, ops, i + 1, fault, keyfile_path)

\* Repository::init: [ok, b, f]
Repository_init(b, f, pass, keyfile_path, master_key, fault) ==
    IF LocalFS_root_exists(b) THEN [ok |-> FALSE, b |-> b, f |-> f]
    ELSE apply_ops([ok |-> TRUE, b |-> b, f |-> f],
                   init_ops(pass, keyfile_path, master_key), 1, fault, keyfile_path)

\* the prompt loop of try_open: [ok, key, prompts], answers being what the
\* user would type at each prompt (the loop cannot ask for more than there are)
try_again_inclusive(password_try_count) == password_try_count <= MAX_PASSWORD_RETRIES

try_again(password_try_count) == password_try_count < MAX_PASSWORD_RETRIES

RECURSIVE prompt_loop(_, _, _, _, _)
prompt_loop(answers, prompts, key_file_path, b, f) ==
    LET pass_from_console == answers[prompts + 1]
        r == retrieve_master_key(pass_from_console, key_file_path, b, f)
    IN IF r.ok THEN [ok |-> TRUE, key |-> r.key, prompts |-> prompts + 1]
       ELSE IF try_again(prompts + 1) /\ prompts + 1 < Len(answers)
            THEN prompt_loop(answers, prompts + 1, key_file_path, b, f)
            ELSE [ok |-> FALSE, key |-> 0, prompts |-> prompts + 1]

\* Repository::open: load_master_index lists index/
Repository_open(b) == LocalFS_read_dir(b, <<"index">>).ok

\* the manifest is read, decoded with the master key and its version checked
manifest_ok(b, key) ==
    /\ <<"manifest">> \in DOMAIN b.files
    /\ SecureStorage_decode_with_key(key, b.files[<<"manifest">>]).ok
    /\ SecureStorage_decode_with_key(key, b.files[<<"manifest">>]).plain.version = 1

\* Repository::try_open: [ok, prompts, attempts, unwrapped]
Repository_try_open(password, key_file_path, b, f, answers) ==
    IF ~LocalFS_root_exists(b)
    THEN [ok |-> FALSE, prompts |-> 0, attempts |-> 0, unwrapped |-> FALSE]
    ELSE LET k == IF password # <<>>
                  THEN [prompts |-> 0] @@ retrieve_master_key(password[1], key_file_path, b, f)
                  ELSE prompt_loop(answers, 0, key_file_path, b, f)
         IN [ok |-> k.ok /\ manifest_ok(b, k.key) /\ Repository_open(b),
             prompts |-> k.prompts,
             attempts |-> IF password # <<>> THEN 1 ELSE k.prompts,
             unwrapped |-> k.ok]

\* the I/O errors of an init: none, at one of the operations, or in the loop
\* at the first, the second or the last subdirectory
InitFaults ==
    {NoFault}
    \cup {[op |-> i, n |-> num_folders] : i \in {1, 2, 3, 4, 5, 7, 8}}
    \cup {[op |-> 6, n |-> n] : n \in {0, 1, num_folders - 1}}

\* what the user would type at the prompts, one more than try_open may ask for
Answers == [1..(MAX_PASSWORD_RETRIES + 1) -> Passwords]

NoInit == [some |-> FALSE]

NoOpen == [some |-> FALSE]

InitInit ==
    /\ backend \in {LocalFS_new(exists) : exists \in BOOLEAN}
    /\ index = MasterIndex_new
    /\ packers = [Data |-> Packer_new, Tree |-> Packer_new]
    /\ pack_saver = PackSaver_none
    /\ nonce = 1
    /\ thr = [t \in Threads |-> ThreadIdle]
    /\ main = [MainClosed EXCEPT !.cmd = "init"]
    /\ fs = [keyfile |-> <<>>]
    /\ hist = [init |-> NoInit, open |-> NoOpen]

\* cmd_init: with no password init asks for it, typed being the answer; the
\* master key is drawn and the backend written once the root check has passed
RepoInit(password, typed, keyfile_path) ==
    /\ main.pc = "closed"
    /\ ~hist.open.some
    /\ \E pass \in {IF password # <<>> THEN password[1] ELSE typed} :
         \E master_key \in IF LocalFS_root_exists(backend) THEN {1} ELSE MasterKeys,
            fault \in IF LocalFS_root_exists(backend) THEN {NoFault} ELSE InitFaults :
           \E r \in {Repository_init(backend, fs, pass, keyfile_path, master_key, fault)} :
             /\ backend' = r.b
             /\ fs' = r.f
             /\ hist' = [hist EXCEPT !.init =
                            [some |-> TRUE, ok |-> r.ok, pass |-> pass,
                             keyfile_path |-> keyfile_path,
                             root_existed |-> backend.root,
                             before |-> [b |-> backend, f |-> fs]]]
    /\ UNCHANGED <<index, packers, pack_saver, nonce, thr, main>>

\* a command opens the repository; answers is empty when it has the password
TryOpen(password, key_file_path, answers) ==
    /\ main.pc = "closed"
    /\ ~hist.open.some
    /\ hist' = [hist EXCEPT !.open =
                   [some |-> TRUE, password |-> password, key_file_path |-> key_file_path,
                    before_root |-> backend.root,
                    answers |-> answers,
                    result |-> Repository_try_open(password, key_file_path,
                                                   backend, fs, answers)]]
    /\ UNCHANGED <<backend, index, packers, pack_saver, nonce, thr, main, fs>>

NextInit ==
    \/ \E password \in OptionalPasswords, keyfile_path \in KeyfilePaths :
           \E typed \in IF password = <<>> THEN Passwords ELSE {password[1]} :
               RepoInit(password, typed, keyfile_path)
    \/ \E password \in OptionalPasswords, key_file_path \in KeyfilePaths :
           \E answers \in IF password = <<>> THEN Answers ELSE {<<>>} :
               TryOpen(password, key_file_path, answers)

SpecInit == InitInit /\ [][NextInit]_vars

(***************************************************************************)
(* NodeDiffStreamer.  An input iterator is the sequence of the items it    *)
(* has yet to yield; an Option is a sequence of at most one element.       *)
(***************************************************************************)
MaxStreamLen == 2

DiffPaths == {<<1>>, <<1, 1>>, <<2>>}

\* the metadata a snapshot recorded for a node
Metadata_recorded == [size |-> 0, mtime |-> 0, mode |-> 0, uid |-> 0, gid |-> 0]

\* the metadata found now: as recorded, or with one of the fields different
Metadata_found ==
    {Metadata_recorded} \cup {[Metadata_recorded EXCEPT ![f] = 1] : f \in DOMAIN Metadata_recorded}

Metadata_has_changed_size_mtime(previous, incoming) ==
    \/ previous.size # incoming.size
    \/ previous.mtime # incoming.mtime

\* Metadata::has_changed
Metadata_has_changed(previous, incoming) ==
    \/ previous.size # incoming.size
    \/ previous.mtime # incoming.mtime
    \/ previous.mode # incoming.mode
    \/ previous.uid # incoming.uid
    \/ previous.gid # incoming.gid

\* an item of an input stream: Ok((path, node)) or Err
StreamOk(path, metadata) == [ok |-> TRUE, path |-> path, metadata |-> metadata]

StreamErr == [ok |-> FALSE, path |-> <<>>, metadata |-> Metadata_recorded]

\* the streams of at most limit items whose Ok items are in increasing path order
SortedStreams(items, limit) ==
    {s \in UNION {[1..n -> items] : n \in 0..limit} :
        \A i, j \in DOMAIN s : (i < j /\ s[i].ok /\ s[j].ok) => PathLess(s[i].path, s[j].path)}

\* Iterator::next of an input: the item yielded and the iterator left
Iterator_next(it) ==
    IF it = <<>> THEN [head |-> <<>>, rest |-> <<>>]
    ELSE [head |-> <<Head(it)>>, rest |-> Tail(it)]

NodeDiffStreamer_new(prev, next) ==
    [head_prev |-> Iterator_next(prev).head, prev |-> Iterator_next(prev).rest,
     head_next |-> Iterator_next(next).head, next |-> Iterator_next(next).rest]

Path_cmp_reversed(a, b) ==
    IF PathLess(a, b) THEN "Greater" ELSE IF PathLess(b, a) THEN "Less" ELSE "Equal"

\* PathBuf::cmp
Path_cmp(a, b) ==
    IF PathLess(a, b) THEN "Less" ELSE IF PathLess(b, a) THEN "Greater" ELSE "Equal"

DiffError == [ok |-> FALSE, path |-> <<>>, previous |-> <<>>, incoming |-> <<>>, diff |-> "Error"]

DiffTuple(path, previous, incoming, diff) ==
    [ok |-> TRUE, path |-> path, previous |-> previous, incoming |-> incoming, diff |-> diff]

take_prev_and_next(d) ==
    [d EXCEPT !.head_prev = Iterator_next(d.prev).head, !.prev = Iterator_next(d.prev).rest,
              !.head_next = Iterator_next(d.next).head, !.next = Iterator_next(d.next).rest]

\* self.head_prev = self.prev.next()
take_prev(d) ==
    [d EXCEPT !.head_prev = Iterator_next(d.prev).head, !.prev = Iterator_next(d.prev).rest]

\* self.head_next = self.next.next()
take_next(d) ==
    [d EXCEPT !.head_next = Iterator_next(d.next).head, !.next = Iterator_next(d.next).rest]

NodeDiffStreamer_next(d) ==
    IF d.head_prev = <<>> /\ d.head_next = <<>>
    THEN [d |-> d, some |-> FALSE, item |-> DiffError]
    ELSE IF d.head_prev # <<>> /\ ~d.head_prev[1].ok
    THEN [d |-> take_prev(d), some |-> TRUE, item |-> DiffError]
    ELSE IF d.head_next # <<>> /\ ~d.head_next[1].ok
    THEN [d |-> take_next(d), some |-> TRUE, item |-> DiffError]
    ELSE IF d.head_prev # <<>> /\ d.head_next # <<>>
    THEN LET a == d.head_prev[1]
             b == d.head_next[1]
             ordering == Path_cmp(a.path, b.path)
         IN IF ordering = "Less"
            THEN [d |-> take_prev(d), some |-> TRUE,
                  item |-> DiffTuple(a.path, <<a.metadata>>, <<>>, "Deleted")]
            ELSE IF ordering = "Greater"
            THEN [d |-> take_next(d), some |-> TRUE,
                  item |-> DiffTuple(b.path, <<>>, <<b.metadata>>, "New")]
            ELSE [d |-> take_next(take_prev(d)), some |-> TRUE,
                  item |-> DiffTuple(a.path, <<a.metadata>>, <<b.metadata>>,
                                     IF Metadata_has_changed(a.metadata, b.metadata)
                                     THEN "Changed" ELSE "Unchanged")]
    ELSE IF d.head_next = <<>>
    THEN [d |-> take_prev(d), some |-> TRUE,
          item |-> DiffTuple(d.head_prev[1].path, <<d.head_prev[1].metadata>>, <<>>, "Deleted")]
    ELSE [d |-> take_next(d), some |-> TRUE,
          item |-> DiffTuple(d.head_next[1].path, <<>>, <<d.head_next[1].metadata>>, "New")]

(***************************************************************************)
(* SpecDiff: one run of a NodeDiffStreamer over two sorted input streams.  *)
(***************************************************************************)
PrevItems == {StreamOk(p, Metadata_recorded) : p \in DiffPaths} \cup {StreamErr}

NextItems == {StreamOk(p, m) : p \in DiffPaths, m \in Metadata_found} \cup {StreamErr}

InitDiff ==
    /\ backend = EmptyMap
    /\ index = MasterIndex_new
    /\ packers = [Data |-> Packer_new, Tree |-> Packer_new]
    /\ pack_saver = PackSaver_none
    /\ nonce = 1
    /\ thr = [t \in Threads |-> ThreadIdle]
    /\ \E prev \in SortedStreams(PrevItems, MaxStreamLen),
          next \in SortedStreams(NextItems, MaxStreamLen) :
           /\ main = [pc |-> "diff", streamer |-> NodeDiffStreamer_new(prev, next)]
           /\ hist = [emitted |-> <<>>, prev |-> prev, next |-> next]
    /\ fs = [tree |-> {}]

DiffNext ==
    \E step \in {NodeDiffStreamer_next(main.streamer)} :
        /\ main.pc = "diff"
        /\ main' = [main EXCEPT !.streamer = step.d,
                                !.pc = IF step.some THEN "diff" ELSE "done"]
        /\ hist' = [hist EXCEPT !.emitted = IF step.some THEN Append(@, step.item) ELSE @]
        /\ UNCHANGED <<backend, index, packers, pack_saver, nonce, thr, fs>>

NextDiff == DiffNext

SpecDiff == InitDiff /\ [][NextDiff]_vars

(***************************************************************************)
(* Claims about the blob store.                                            *)
(***************************************************************************)
\* the blob is reserved, in a packer, in a pack handed to the saver, or in an index
InFlight(id) ==
    \/ id \in index.pending_blobs
    \/ \E blob_type \in DOMAIN packers :
           \E i \in DOMAIN packers[blob_type] : packers[blob_type][i].id = id
    \/ \E i \in DOMAIN index.indices : Index_contains(index.indices[i], id)

\* C2: storing the same bytes twice under the same blob type writes the payload
\* to a packer only once, also when a packer flush or an index finalization
\* happened between the two calls.
C2_PayloadWrittenOnce == hist.readded = {}

\* C3: when encode_and_save_blob returns an ID without error, contains(id) is
\* true from that moment on: it was true in the state the call returned in.
C3_ContainedOnReturn == \A r \in hist.returned : r.ok => r.contained

\* C4: no thread passes the check-and-reserve for a blob that is in flight
\* (reserved, in a packer, or already packed), so no such blob is added to a
\* packer a second time.
C4_NoReserveInFlight ==
    [][\A t \in Threads :
           (thr[t].pc = "idle" /\ thr'[t].pc = "encode") => ~InFlight(thr'[t].id)]_vars

\* C5: once a blob has been stored, flush has returned Ok and the pack saver
\* has finished, load_blob of its ID returns exactly the bytes that were stored.
C5_LoadReturnsStored ==
    (main.pc = "finished" /\ main.flush_ok) =>
        \A r \in hist.returned :
            r.ok => LET loaded == Repository_load_blob(Repo, r.id)
                    IN loaded.ok /\ loaded.plain = r.plain

(***************************************************************************)
(* Claims about snapshot and restore.                                      *)
(***************************************************************************)
\* C1: a restore that succeeds leaves in the target the bytes the source file
\* had when the snapshot was taken, and the modification time it had then.
C1_RoundTrip ==
    \A r \in hist.restored :
        r.ok => \E s \in hist.snapshots :
                    s.id = r.snapshot /\ r.data = s.data /\ r.mtime = s.mtime

\* a snapshot of a file of several chunks was restored after the user had
\* rewritten the source
C1_Witness ==
    \E r \in hist.restored : r.ok /\ Len(r.data) >= 2 /\ r.data # fs.src.data

\* C8: a pack whose backend write failed makes the snapshot fail: no snapshot
\* file is saved by a run in which a pack write failed.
C8_FailedWriteAborts == \A s \in hist.snapshots : ~s.write_failed

\* C9: no file of the repository is ever visible at its final path before it
\* is complete: every persistent file is written to a temporary path and renamed.
C9_AtomicWrites == \A path \in DOMAIN backend : path[3] = "" => backend[path].complete

(***************************************************************************)
(* Claims about garbage collection.                                        *)
(***************************************************************************)
\* C6: after gc has run to its end, every blob that the snapshots reference (and
\* that resolved before gc) still resolves through load_blob, in the session
\* that ran gc and after the repository is opened again.
C6_ReferencedSurviveGc ==
    (main.pc = "gc_done") =>
        /\ \A id \in hist.resolvable : Repository_load_blob(Repo, id).ok
        /\ ResolvableAfterReopen(backend, hist.resolvable)

\* C7: when gc is interrupted at any point of Plan::execute, the repository
\* stays readable: every referenced blob that resolved before gc resolves when
\* the repository is opened again.
C7_InterruptedGcReadable ==
    (hist.gc = "crashed") => ResolvableAfterReopen(backend, hist.resolvable)

(***************************************************************************)
(* Claims about the streamers.                                             *)
(***************************************************************************)
\* C10: the paths one FSNodeStreamer run emits are strictly increasing in path
\* order, whatever the source paths (nested ones included) and the excludes: no
\* path twice, a directory before its descendants, siblings in name order.
C10_StrictlyIncreasing ==
    \A i, j \in DOMAIN hist.emitted :
        i < j => PathLess(hist.emitted[i].path, hist.emitted[j].path)

\* the paths of the Ok items of a stream
OkPaths(stream) == {stream[i].path : i \in {j \in DOMAIN stream : stream[j].ok}}

\* the metadata a stream carries for a path
MetadataAt(stream, path) ==
    stream[CHOOSE i \in DOMAIN stream : stream[i].ok /\ stream[i].path = path].metadata

\* the one item a sorted merge owes to a path of the inputs
ExpectedDiff(path) ==
    IF path \notin OkPaths(hist.next)
    THEN DiffTuple(path, <<MetadataAt(hist.prev, path)>>, <<>>, "Deleted")
    ELSE IF path \notin OkPaths(hist.prev)
    THEN DiffTuple(path, <<>>, <<MetadataAt(hist.next, path)>>, "New")
    ELSE DiffTuple(path, <<MetadataAt(hist.prev, path)>>, <<MetadataAt(hist.next, path)>>,
                   IF MetadataAt(hist.prev, path) # MetadataAt(hist.next, path)
                   THEN "Changed" ELSE "Unchanged")

\* C11: when a NodeDiffStreamer over two path-sorted inputs is exhausted, it
\* has emitted exactly one item for every path of the inputs and none for any
\* other path: Deleted for a path only in prev, New for a path only in next,
\* and for a path in both Changed if the metadata differ and Unchanged if not.
C11_ExactSortedMerge ==
    (main.pc = "done") =>
        /\ \A path \in OkPaths(hist.prev) \cup OkPaths(hist.next) :
               /\ Cardinality({i \in DOMAIN hist.emitted : hist.emitted[i].ok
                                   /\ hist.emitted[i].path = path}) = 1
               /\ \E i \in DOMAIN hist.emitted : hist.emitted[i] = ExpectedDiff(path)
        /\ \A i \in DOMAIN hist.emitted :
               hist.emitted[i].ok =>
                   hist.emitted[i].path \in OkPaths(hist.prev) \cup OkPaths(hist.next)
        /\ (hist.prev = hist.next) =>
               \A i \in DOMAIN hist.emitted :
                   hist.emitted[i].ok => hist.emitted[i].diff = "Unchanged"
        /\ (OkPaths(hist.prev) \cap OkPaths(hist.next) = {}) =>
               \A i \in DOMAIN hist.emitted :
                   hist.emitted[i].ok => hist.emitted[i].diff \in {"Deleted", "New"}

\* a finished diff that emitted a Deleted, a New and an item Changed by its gid
C11_Witness ==
    /\ main.pc = "done"
    /\ \E i, j, k \in DOMAIN hist.emitted :
           /\ hist.emitted[i].diff = "Deleted"
           /\ hist.emitted[j].diff = "New"
           /\ hist.emitted[k].diff = "Changed"
           /\ hist.emitted[k].incoming[1].gid # hist.emitted[k].previous[1].gid

\* C12: the paths of the non-error items a NodeDiffStreamer over two
\* path-sorted inputs has emitted never decrease, at any point of the run.
C12_OutputNonDecreasing ==
    \A i, j \in DOMAIN hist.emitted :
        (i < j /\ hist.emitted[i].ok /\ hist.emitted[j].ok) =>
            ~PathLess(hist.emitted[j].path, hist.emitted[i].path)

\* items taken from both inputs, and an error between them, were emitted
C12_Witness ==
    \E i, j, k \in DOMAIN hist.emitted :
        /\ i < j /\ j < k
        /\ hist.emitted[i].diff = "Deleted"
        /\ hist.emitted[j].diff = "Error"
        /\ hist.emitted[k].diff = "New"

\* an exclude path is a prefix of the path
Excluded(path) == \E e \in hist.exclude : starts_with(path, e)

\* the path is a source path or lies below one
UnderSources(path) == \E source \in main.paths : starts_with(path, source)

\* C13: an FSNodeStreamer never emits a path that an exclude path is a prefix
\* of and never lists such a directory, and when it is exhausted it has emitted
\* every path under the sources that no exclude path is a prefix of.
C13_EmittedIffNotExcluded ==
    /\ \A i \in DOMAIN hist.emitted : ~Excluded(hist.emitted[i].path)
    /\ \A dir \in hist.listed : ~Excluded(dir)
    /\ (main.pc = "done") =>
           \A path \in create_tree :
               (UnderSources(path) /\ ~Excluded(path)) =>
                   \E i \in DOMAIN hist.emitted : hist.emitted[i].path = path

\* a finished run that listed a source directory holding an excluded directory
\* with a child of its own, and emitted a sibling of the excluded directory
C13_Witness ==
    /\ main.pc = "done"
    /\ \E e \in hist.exclude :
           /\ \E path \in create_tree : path # e /\ starts_with(path, e)
           /\ Pop(e) \in hist.listed
           /\ UnderSources(Pop(e))
           /\ \E i \in DOMAIN hist.emitted :
                  Pop(hist.emitted[i].path) = Pop(e) /\ hist.emitted[i].path # e

(***************************************************************************)
(* Claims about the packer.                                                *)
(***************************************************************************)
\* the descriptors cut a body made of payloads of these lengths into the
\* payloads: the first starts at 0 and each starts where the one before ends
PartitionsBody(descriptors, lengths) ==
    \A i \in DOMAIN descriptors :
        /\ descriptors[i].offset = SumSeq(SubSeq(lengths, 1, i - 1))
        /\ descriptors[i].length = lengths[i]

\* C15: after any sequence of add_blob calls since the last flush, the byte
\* ranges of a packer's descriptors partition the pack body without gap or
\* overlap, from 0 to size(); the descriptors a flush returns do the same.
C15_DescriptorsPartitionBody ==
    /\ \A blob_type \in DOMAIN packers :
           LET p == packers[blob_type]
               lengths == [i \in DOMAIN p |-> p[i].payload.len]
           IN /\ PartitionsBody([i \in DOMAIN p |-> Descriptor(p[i])], lengths)
              /\ Packer_size(p) = SumSeq(lengths)
    /\ hist.flushed.some =>
           PartitionsBody(hist.flushed.descriptors,
                          [i \in DOMAIN hist.flushed.data.blobs |->
                              hist.flushed.data.blobs[i].payload.len])

\* a packer holds three payloads of different lengths
C15_Witness ==
    \E blob_type \in DOMAIN packers :
        /\ Len(packers[blob_type]) = 3
        /\ packers[blob_type][1].length # packers[blob_type][2].length
        /\ packers[blob_type][2].length > 1

(***************************************************************************)
(* Claims about the tree serializer.                                       *)
(***************************************************************************)
\* the stored paths that amend keeps: no exclude path is a prefix of them
Surviving == {p \in hist.stored : ~\E e \in main.exclude : starts_with(p, e)}

\* the kept paths below a directory
Descendants(dir) == {p \in Surviving : p # dir /\ starts_with(p, dir)}

\* the paths that have their final blob ID
Serialized == {hist.serialized[i].path : i \in DOMAIN hist.serialized}

\* C14: a directory's Tree blob is built and saved only after every one of its
\* descendants in the stream has its final blob ID, and the counter of an open
\* directory is the number of its children that are not final yet: it is zero,
\* and the directory closes, exactly when all its descendants are serialized.
C14_TreeAfterDescendants ==
    /\ \A k \in DOMAIN hist.serialized :
           hist.serialized[k].id # 0 =>
               \A q \in Descendants(hist.serialized[k].path) :
                   \E j \in 1..(k - 1) : hist.serialized[j].path = q
    /\ \A dir \in DOMAIN main.pending_trees :
           /\ main.pending_trees[dir].remaining =
                  Cardinality({q \in Descendants(dir) \ Serialized : Len(q) = Len(dir) + 1})
           /\ main.pending_trees[dir].remaining = 0 <=> Descendants(dir) \subseteq Serialized

\* the root tree of an amended snapshot was saved after a directory two levels
\* below it, while an excluded path was left out
C14_Witness ==
    /\ main.pc = "amend_done"
    /\ Surviving # hist.stored
    /\ \E k \in DOMAIN hist.serialized :
           /\ hist.serialized[k].path = main.snapshot.root
           /\ \E j \in 1..(k - 1) :
                  /\ hist.serialized[j].id # 0
                  /\ Len(hist.serialized[j].path) = Len(main.snapshot.root) + 2

(***************************************************************************)
(* Claims about the files of the repository.                               *)
(***************************************************************************)
\* C16: the name of a snapshot file is a function of the snapshot's plaintext:
\* two save_file calls with byte-equal content return the same ID (and so
\* leave a single file).
C16_NameIsHashOfPlaintext ==
    \A a, b \in hist.saved : a.plain = b.plain => a.id = b.id

\* the snapshot files stored under their ID whose name starts with the prefix
StoredMatches(prefix) ==
    {path \in hist.found.files : path[3] = "" /\ starts_with(ID_to_hex(path[2]), prefix)}

\* C17: find returns (id, path) exactly when the prefix is not empty, is no
\* longer than an ID, and is the start of the name of one and only one stored
\* file of the type; what it returns is that file.
C17_FindUniquePrefix ==
    hist.found.some =>
        /\ hist.found.result.ok <=>
               /\ hist.found.prefix # <<>>
               /\ Len(hist.found.prefix) <= 2 * ID_LENGTH
               /\ Cardinality(StoredMatches(hist.found.prefix)) = 1
        /\ hist.found.result.ok =>
               /\ hist.found.result.path \in StoredMatches(hist.found.prefix)
               /\ hist.found.result.id = hist.found.result.path[2]

(***************************************************************************)
(* Claims about init and try_open.                                         *)
(***************************************************************************)
\* the prompts, of the first MAX_PASSWORD_RETRIES, whose password unwraps a key file
Unwrapping ==
    {i \in 1..MAX_PASSWORD_RETRIES :
        retrieve_master_key(hist.open.answers[i], hist.open.key_file_path, backend, fs).ok}

\* C18: try_open with no password prompts at most 3 times, stops at the first
\* prompt whose password unwraps a key file and then opens the repository that
\* init completed, fails after the third wrong password without a further
\* prompt, and with a password supplied makes one attempt and no prompt
C18_AtMostThreePrompts ==
    (hist.open.some /\ hist.open.before_root) =>
        LET result == hist.open.result
        IN IF hist.open.password # <<>>
           THEN result.prompts = 0 /\ result.attempts = 1
           ELSE /\ result.prompts <= 3
                /\ result.attempts = result.prompts
                /\ Unwrapping # {} =>
                       /\ \A i \in Unwrapping : result.prompts <= i
                       /\ result.prompts \in Unwrapping
                       /\ (hist.init.some /\ hist.init.ok) => result.ok
                /\ Unwrapping = {} => (result.prompts = 3 /\ ~result.ok)

C18_Witness ==
    /\ hist.open.some
    /\ hist.open.password = <<>>
    /\ hist.open.result.ok
    /\ hist.open.result.prompts = 3

\* the directories of a repository
Skeleton ==
    {<<"keys">>, <<"snapshots">>, <<"index">>, <<"objects">>}
    \cup {<<"objects", <<high, low>>>> : high \in 0..15, low \in 0..15}

KeysFiles == {p \in DOMAIN backend.files : p[1] = "keys"}

\* C19: after init succeeds the backend holds the manifest, keys/, snapshots/,
\* index/ and objects/ with exactly the 256 subdirectories 00..ff, the key
\* file is in one place only (keys/ or the external path), and try_open with
\* the same password and key file path succeeds
C19_InitLayout ==
    (hist.init.some /\ hist.init.ok) =>
        /\ backend.root
        /\ <<"manifest">> \in DOMAIN backend.files
        /\ backend.dirs = Skeleton
        /\ Cardinality({d \in backend.dirs : Len(d) = 2}) = 256
        /\ IF hist.init.keyfile_path = None
           THEN Cardinality(KeysFiles) = 1 /\ fs.keyfile = <<>>
           ELSE KeysFiles = {} /\ fs.keyfile # <<>>
        /\ (/\ hist.open.some
            /\ hist.open.password = <<hist.init.pass>>
            /\ hist.open.key_file_path = hist.init.keyfile_path) => hist.open.result.ok

C19_Witness ==
    /\ hist.init.some
    /\ hist.init.ok
    /\ hist.init.keyfile_path # None
    /\ hist.open.some
    /\ hist.open.password = <<hist.init.pass>>
    /\ hist.open.key_file_path = hist.init.keyfile_path
    /\ hist.open.result.ok

\* C20: init on a backend whose root exists fails and leaves the root, the
\* manifest, the key files and everything else as they were
C20_InitOnExistingRootFails ==
    (hist.init.some /\ hist.init.root_existed) =>
        /\ ~hist.init.ok
        /\ backend = hist.init.before.b
        /\ fs = hist.init.before.f

C20_Witness ==
    /\ hist.init.some
    /\ hist.init.root_existed
    /\ <<"manifest">> \in DOMAIN hist.init.before.b.files
    /\ hist.init.before.f.keyfile # <<>>

(***************************************************************************)
(* Claims about intermediate directories.                                  *)
(***************************************************************************)
\* the source paths no exclude path covers, and their longest common prefix
KeptSources == {p \in main.paths : ~Excluded(p)}

CommonRoot == calculate_lcp(KeptSources)

\* the directories strictly between the common prefix and a kept source path
Joining ==
    UNION {{SubSeq(p, 1, k) : k \in (Len(CommonRoot) + 1)..(Len(p) - 1)} : p \in KeptSources}

EmittedAt(path) == {i \in DOMAIN hist.emitted : hist.emitted[i].path = path}

\* C21: with source paths at different depths below their longest common
\* prefix, a finished FSNodeStreamer run has emitted every directory that
\* joins a source path to the common prefix exactly once and before every node
\* beneath it, and the parent of every emitted node is the common root or was
\* emitted earlier
C21_IntermediateOnceBeforeChildren ==
    (main.pc = "done" /\ \E p, q \in KeptSources : Len(p) # Len(q)) =>
        /\ \A dir \in Joining :
               /\ Cardinality(EmittedAt(dir)) = 1
               /\ \A i \in EmittedAt(dir), j \in DOMAIN hist.emitted :
                      (hist.emitted[j].path # dir /\ starts_with(hist.emitted[j].path, dir))
                          => i < j
        /\ \A j \in DOMAIN hist.emitted :
               \/ hist.emitted[j].path = CommonRoot
               \/ Pop(hist.emitted[j].path) = CommonRoot
               \/ \E i \in 1..(j - 1) : hist.emitted[i].path = Pop(hist.emitted[j].path)

\* the sources of the test: dir_a/file0 and dir_a/dir2/file1
C21_Witness ==
    /\ main.pc = "done"
    /\ main.paths = {<<0, 1, 4>>, <<0, 1, 3, 1>>}
    /\ hist.exclude = {}
    /\ [i \in DOMAIN hist.emitted |-> hist.emitted[i].path]
           = <<<<0, 1, 3>>, <<0, 1, 3, 1>>, <<0, 1, 4>>>>

(***************************************************************************)
(* Claims about dry runs.                                                  *)
(***************************************************************************)
\* every snapshot run so far, the one in progress included, was a dry run
OnlyDryRuns ==
    /\ \A s \in hist.snapshots : s.dry_run
    /\ main.cmd = "snapshot" => main.dry_run

EntriesOf(mi, id) ==
    {Index_get(mi.indices[i], id) :
        i \in {k \in DOMAIN mi.indices : Index_contains(mi.indices[k], id)}}

\* the entries of before the cleanup that are in no removed pack
KeptEntries(id) ==
    {e \in EntriesOf(hist.cleaned.before, id) : e.pack_id \notin hist.cleaned.packs}

\* C23: after cleanup(P) and save, get returns None for a blob whose entries
\* were all in packs of P, and for every other indexed blob the entry it
\* returned before, however the packs were spread over the indices
C23_CleanupRemovesExactly ==
    hist.cleaned.some =>
        \A id \in 1..4 :
            IF KeptEntries(id) = {} THEN ~MasterIndex_get(index, id).some
            ELSE /\ MasterIndex_get(index, id) \in KeptEntries(id)
                 /\ MasterIndex_get(hist.cleaned.before, id) \in KeptEntries(id)
                        => MasterIndex_get(index, id) = MasterIndex_get(hist.cleaned.before, id)

C23_Witness ==
    /\ hist.cleaned.some
    /\ hist.cleaned.packs # {}
    /\ Len(hist.cleaned.before.indices) = 2
    /\ \E id \in 1..4 : KeptEntries(id) = {} /\ EntriesOf(hist.cleaned.before, id) # {}
    /\ \E id \in 1..4 : MasterIndex_get(index, id).some

\* no blob was recorded in two packs before the cleanup
RecordedOnce ==
    \A id \in 1..4 :
        Cardinality({p \in CleanupPacks :
                        \E i \in DOMAIN hist.cleaned.before.indices :
                            LET idx == hist.cleaned.before.indices[i]
                            IN  /\ Index_contains(idx, id)
                                /\ Index_get(idx, id).pack_id = p}) <= 1

CleanupOfRecordedOnce == (hist.cleaned.some /\ RecordedOnce) => C23_CleanupRemovesExactly

(***************************************************************************)
(* Claims about leftover temporary files.                                  *)
(***************************************************************************)
\* the files a finished save_file left in a directory
SavedFiles(dir) == {path \in hist.opened.files : path[1] = dir /\ path[3] = ""}

\* C24: with the temporary file of an interrupted save left in index/ or in
\* snapshots/, try_open still loads the master index and list_snapshot_ids
\* still lists the snapshots, both ignoring the leftover
C24_LeftoverIgnored ==
    (hist.opened.some /\ \E path \in hist.opened.files : path[3] = "tmp") =>
        /\ hist.opened.loaded.ok
        /\ {hist.opened.loaded.index.indices[i].id :
               i \in DOMAIN hist.opened.loaded.index.indices}
               = {path[2] : path \in SavedFiles("index")}
        /\ hist.opened.listed.ok
        /\ hist.opened.listed.ids = {path[2] : path \in SavedFiles("snapshots")}

\* without a leftover both calls succeed
OpenedWithoutLeftover ==
    (hist.opened.some /\ \A path \in hist.opened.files : path[3] = "") =>
        hist.opened.loaded.ok /\ hist.opened.listed.ok

(***************************************************************************)
(* Claims about failed encode_and_save_blob calls.                         *)
(***************************************************************************)
\* the blob is in a packer or recorded in an Index, pending or finalized
HeldSomewhere(id) ==
    \/ \E blob_type \in DOMAIN packers :
           \E i \in DOMAIN packers[blob_type] : packers[blob_type][i].id = id
    \/ \E i \in DOMAIN index.indices : Index_contains(index.indices[i], id)

\* a call on the ID returned an error and no call on it is running
FailedAndIdle(id) ==
    /\ \E r \in hist.returned : r.id = id /\ ~r.ok
    /\ \A t \in Threads : thr[t].id # id

\* C25: when encode_and_save_blob fails after it has reserved the ID,
\* contains(id) is not left true for a blob that is in no pack and no packer,
\* and a retry with the same content stores the blob
C25_FailedCallReleasesId ==
    \A id \in {r.id : r \in hist.returned} :
        /\ (FailedAndIdle(id) /\ MasterIndex_contains(index, id)) => HeldSomewhere(id)
        /\ \A t \in Workers :
               (/\ thr[t].pc = "idle"
                /\ Len(thr[t].rets) = 2
                /\ thr[t].rets[1] = [id |-> id, ok |-> FALSE]
                /\ thr[t].rets[2] = [id |-> id, ok |-> TRUE]) => HeldSomewhere(id)

(***************************************************************************)
(* Claims about the blob cache.                                            *)
(***************************************************************************)
\* C26: BlobCache.load terminates for every indexed blob and every capacity,
\* also when the blob is longer than the capacity and the cache is empty
C26_LoadTerminates == (main.pc = "evict") ~> (main.pc = "idle")

\* a load of a blob that fits the capacity returns
LoadOfFittingBlobReturns ==
    (main.pc = "evict" /\ main.blob_indexed_size <= main.cache.capacity) ~> (main.pc = "idle")

\* the size of the cache is the total length of its blobs and within capacity
CacheSizeWithinCapacity ==
    /\ main.cache.size <= main.cache.capacity
    /\ main.cache.size = SumSeq([i \in 1..Cardinality(DOMAIN main.cache.blobs) |->
                                    main.cache.blobs[SetToSeq(DOMAIN main.cache.blobs)[i]].len])

(***************************************************************************)
(* Claims about the locks.                                                 *)
(***************************************************************************)
\* a thread waits for a lock that it cannot get now
Waiting(t) ==
    /\ thr[t].ops # <<>>
    /\ Head(thr[t].ops).op = "acquire"
    /\ ~CanAcquire(t, Head(thr[t].ops))

\* C27: threads that call encode_and_save_blob, load_blob and flush at the
\* same time never deadlock: there is no set of threads each of which waits
\* for a lock that a thread of the set holds, the locks are taken in the order packer, pack saver,
\* index, and no thread acquires a lock it already holds
C27_NoDeadlock ==
    /\ \A S \in (SUBSET Workers) \ {{}} :
           ~(\A t \in S : Waiting(t) /\ \E u \in S : Blocks(u, t, Head(thr[t].ops)))
    /\ hist.order_kept
    /\ \A t \in Workers :
           (thr[t].ops # <<>> /\ Head(thr[t].ops).op = "acquire") =>
               \A g \in thr[t].held : g.lock # Head(thr[t].ops).lock

\* one thread holds a packer and waits for the index lock that another holds
C27_Witness ==
    \E t, u \in Workers :
        /\ t # u
        /\ Waiting(t)
        /\ Head(thr[t].ops).lock = "index"
        /\ \E g \in thr[t].held : g.lock = "data_packer"
        /\ \E g \in thr[u].held : g.lock = "index"

(***************************************************************************)
(* Claims about the scan of gc.  At "gc_planned" the index is the one      *)
(* scan has read and main.plan is its result.                              *)
(***************************************************************************)
\* the blobs the index records for a pack
IndexedIn(pack_id) == {e \in MasterIndex_iter_ids(index) : e.pack_id = pack_id}

IndexedPacks == {e.pack_id : e \in MasterIndex_iter_ids(index)}

\* C28: scan marks a pack small exactly when the total encoded length of the
\* pack's blobs is below DEFAULT_PACK_SIZE times 0.05; a pack whose single
\* blob is at least that long is not marked small
C28_SmallBelowFactor ==
    (main.pc = "gc_planned") =>
        \A pack_id \in IndexedPacks :
            pack_id \in main.plan.small_packs
                <=> SumLength(IndexedIn(pack_id)) * 100
                        < MIN_PACK_SIZE_PERCENT * DEFAULT_PACK_SIZE

\* packs of two blobs and more are marked by the length of all blobs but one
SmallOfAllButOne ==
    (main.pc = "gc_planned") =>
        \A pack_id \in IndexedPacks :
            pack_id \in main.plan.small_packs
                <=> \E e \in IndexedIn(pack_id) :
                        (SumLength(IndexedIn(pack_id)) - e.length) * 100
                            < MIN_PACK_SIZE_PERCENT * DEFAULT_PACK_SIZE

\* the length of a pack: of its file, or of the blobs the index records
\* when the file is gone
PackSizeOf(pack_id) ==
    IF Backend_exists(backend, Repository_get_path("Pack", pack_id))
    THEN PackLen(backend[Repository_get_path("Pack", pack_id)].data)
    ELSE SumLength(IndexedIn(pack_id))

GarbageBytes(pack_id) ==
    SumLength({e \in IndexedIn(pack_id) : e.id \notin main.plan.referenced_blobs})

\* C29: scan classifies every referenced pack by its garbage fraction, the
\* encoded bytes of its unreferenced blobs divided by the size of the pack:
\* obsolete if and only if the fraction exceeds the tolerance, tolerated
\* otherwise (a pack without garbage may be left unclassified)
C29_ClassifiedByFraction ==
    (main.pc = "gc_planned") =>
        \A pack_id \in main.plan.referenced_packs :
            LET exceeds == GarbageBytes(pack_id) * 100 > hist.tolerance * PackSizeOf(pack_id)
            IN /\ pack_id \in main.plan.obsolete_packs <=> exceeds
               /\ (GarbageBytes(pack_id) > 0 /\ ~exceeds)
                      => pack_id \in main.plan.tolerated_packs
               /\ pack_id \in main.plan.tolerated_packs => ~exceeds

\* what scan does: a pack with garbage is obsolete when its garbage exceeds
\* the tolerated part of DEFAULT_PACK_SIZE and tolerated otherwise
ClassifiedByDefaultSize ==
    (main.pc = "gc_planned") =>
        \A pack_id \in IndexedPacks :
            LET exceeds == GarbageBytes(pack_id) * 100 > hist.tolerance * DEFAULT_PACK_SIZE
            IN /\ pack_id \in main.plan.obsolete_packs <=> (GarbageBytes(pack_id) > 0 /\ exceeds)
               /\ pack_id \in main.plan.tolerated_packs
                      <=> (GarbageBytes(pack_id) > 0 /\ ~exceeds)

(***************************************************************************)
(* Claims about add_pack.                                                  *)
(***************************************************************************)
\* the indices that name the pack of the last add_pack call
Receivers ==
    {i \in DOMAIN index.indices :
        IndexSet_position(index.indices[i].pack_ids, hist.added.pack_id) # 0}

\* the pending indices before the call
PendingBefore ==
    {i \in DOMAIN hist.added.before.indices : hist.added.before.indices[i].is_pending}

\* the Index is finalized and its index file is written
WrittenOut(idx) ==
    /\ ~idx.is_pending
    /\ idx.id # 0
    /\ Backend_exists(backend, Repository_get_path("Index", idx.id))

\* the pending set lost the IDs and one Index, pending before the call or new,
\* got the entries of the pack
RecordedInOnePending ==
    /\ index.pending_blobs = hist.added.before.pending_blobs \ hist.added.blobs
    /\ Cardinality(Receivers) = 1
    /\ \A i \in Receivers :
           /\ \A b \in hist.added.blobs :
                  /\ Index_contains(index.indices[i], b)
                  /\ Index_get(index.indices[i], b).pack_id = hist.added.pack_id
           /\ IF PendingBefore = {} THEN i = Len(hist.added.before.indices) + 1
              ELSE i \in PendingBefore
    /\ \A i \in DOMAIN hist.added.before.indices :
           i \notin Receivers => index.indices[i] = hist.added.before.indices[i]

\* C30: add_pack removes the descriptors' IDs from the pending set and records
\* the pack in exactly one pending Index, a new one when none is pending; when
\* that Index is full or older than the flush timeout after the call, it has
\* been finalized and written out when add_pack returns
C30_AddPackFlushesFullIndex ==
    hist.added.some =>
        /\ RecordedInOnePending
        /\ \A i \in Receivers :
               (Index_num_blobs(index.indices[i]) >= BLOBS_PER_INDEX_FILE \/ hist.added.aged)
                   => WrittenOut(index.indices[i])

\* an Index that was pending before the call is written out when it is full
\* or old after the call, and only then
PendingIndexFlushed ==
    (hist.added.some /\ PendingBefore # {}) =>
        /\ RecordedInOnePending
        /\ \A i \in Receivers :
               (Index_num_blobs(index.indices[i]) >= BLOBS_PER_INDEX_FILE \/ hist.added.aged)
                   <=> WrittenOut(index.indices[i])

(***************************************************************************)
(* Claims about index files.                                               *)
(***************************************************************************)
\* the number of blob entries of a persisted index file
IndexFileEntries(path) ==
    SumSeq([k \in DOMAIN backend[path].data.sealed.body |->
               Cardinality(backend[path].data.sealed.body[k].blobs)])

\* C31: no persisted index file holds more than BLOBS_PER_INDEX_FILE blob
\* entries, after any sequence of add_pack, save and cleanup
C31_IndexFileBounded ==
    \A path \in Backend_read_dir(backend, "index") :
        IndexFileEntries(path) <= BLOBS_PER_INDEX_FILE

\* an index file exceeds the limit by less than the blobs of one pack
IndexFileExceedsByOnePack ==
    \A path \in Backend_read_dir(backend, "index") :
        \/ IndexFileEntries(path) <= BLOBS_PER_INDEX_FILE
        \/ \E k \in DOMAIN backend[path].data.sealed.body :
               IndexFileEntries(path) - Cardinality(backend[path].data.sealed.body[k].blobs)
                   < BLOBS_PER_INDEX_FILE

(***************************************************************************)
(* Claims about flush.                                                     *)
(***************************************************************************)
\* the Index has an ID and the index file of that ID holds its entries
SavedUnderItsId(idx) ==
    /\ idx.id # 0
    /\ Backend_exists(backend, Repository_get_path("Index", idx.id))
    /\ backend[Repository_get_path("Index", idx.id)].complete
    /\ backend[Repository_get_path("Index", idx.id)].data.sealed.body
           = Index_to_index_file(idx)

ChildrenAfter(i) ==
    {j \in DOMAIN hist.emitted :
        /\ j > i
        /\ hist.emitted[j].path # <<>>
        /\ Pop(hist.emitted[j].path) = hist.emitted[i].path}

\* C33: when a streamer run is exhausted, the num_children of every directory
\* it emitted is the number of items it emitted after the directory for the
\* directory's immediate children, and the num_children of every other item
\* is 0
C33_NumChildrenCountsEmitted ==
    main.pc = "done" =>
        \A i \in DOMAIN hist.emitted :
            hist.emitted[i].num_children
                = IF is_dir(hist.emitted[i].path) THEN Cardinality(ChildrenAfter(i)) ELSE 0

\* the same for source paths none of which lies inside another
NumChildrenOfSeparateSources ==
    (\A p, q \in KeptSources : starts_with(p, q) => p = q) => C33_NumChildrenCountsEmitted

\* the same for a SerializedNodeStreamer run over the tree of a snapshot
SerializedNumChildrenCountsEmitted ==
    (main.cmd = "amend" /\ main.pc = "amend_flush") =>
        \A i \in DOMAIN hist.emitted :
            hist.emitted[i].num_children
                = IF is_dir(hist.emitted[i].path) THEN Cardinality(ChildrenAfter(i)) ELSE 0

SerializedRunWithDirectory ==
    /\ main.cmd = "amend"
    /\ main.pc = "amend_flush"
    /\ main.exclude # {}
    /\ \E i \in DOMAIN hist.emitted :
           is_dir(hist.emitted[i].path) /\ hist.emitted[i].num_children > 0

(***************************************************************************)
(* Claims about the snapshot files of amend.                               *)
(***************************************************************************)
SnapshotFileExists(id) ==
    /\ Backend_exists(backend, Repository_get_path("Snapshot", id))
    /\ backend[Repository_get_path("Snapshot", id)].complete

\* the snapshot file that amend saved for an original
AmendedFileExists(id) ==
    id \in DOMAIN hist.amended /\ SnapshotFileExists(hist.amended[id])

\* C36: at every instant of an amend run, a stopped run included, the
\* original snapshot file or the amended one exists, and a step deletes an
\* original only when keep_old is not set, the new ID differs from the
\* original's and the amended snapshot file is already saved
C36_SaveBeforeDelete ==
    /\ [](\A id \in hist.originals : SnapshotFileExists(id) \/ AmendedFileExists(id))
    /\ [][\A id \in hist.originals :
              (SnapshotFileExists(id) /\ ~SnapshotFileExists(id)') =>
                  /\ ~main.args.keep_old
                  /\ main.origin_snapshot_id = id
                  /\ main.new_id # id
                  /\ AmendedFileExists(id)]_vars

C36_Witness ==
    /\ main.pc = "amend_stopped"
    /\ \E id \in hist.originals : ~SnapshotFileExists(id) /\ AmendedFileExists(id)
    /\ \E id \in hist.originals : SnapshotFileExists(id) /\ ~AmendedFileExists(id)

(***************************************************************************)
(* Claims about the two maps of the caches.                                *)
(***************************************************************************)
\* the position of the last load call for an ID, 0 when there was none
LastCall(calls, id) ==
    IF \E i \in DOMAIN calls : calls[i] = id
    THEN CHOOSE i \in DOMAIN calls : calls[i] = id /\ \A j \in DOMAIN calls : calls[j] = id => j <= i
    ELSE 0

\* every cached ID has the one entry of the timestamp map that points back
\* to it and every entry of the timestamp map is a cached ID's; a timestamp
\* is the number of the last load call for the ID, and older than the next
MapsConsistent(entries, order_map, next_timestamp, calls) ==
    /\ \A id \in DOMAIN entries :
           /\ entries[id].timestamp \in DOMAIN order_map
           /\ order_map[entries[id].timestamp] = id
           /\ entries[id].timestamp = LastCall(calls, id) - 1
    /\ \A ts \in DOMAIN order_map :
           /\ order_map[ts] \in DOMAIN entries
           /\ entries[order_map[ts]].timestamp = ts
           /\ ts < next_timestamp

\* a step removes from the cache only the ID whose last load call is the oldest
EvictsLeastRecent(entries, entries_after, calls) ==
    \A id \in (DOMAIN entries) \ (DOMAIN entries_after) :
        \A other \in DOMAIN entries : LastCall(calls, id) <= LastCall(calls, other)

\* C34: in TreeCache and in BlobCache the ID map and the timestamp map agree
\* at every instant: each cached ID has exactly one timestamp entry that
\* points back to it and each timestamp entry belongs to a cached ID, the
\* timestamps are distinct and grow with the load calls, a hit gives the entry
\* the timestamp of the hit, and the entry a miss evicts is the least recently
\* loaded one
C34_MapsAgreeAndEvictLru ==
    /\ [](/\ MapsConsistent(main.tree_cache.trees, main.tree_cache.order_map,
                            main.tree_cache.next_timestamp, hist.tree_calls)
          /\ MapsConsistent(main.cache.blobs, main.cache.order_map,
                            main.cache.next_timestamp, hist.calls))
    /\ [][/\ EvictsLeastRecent(main.tree_cache.trees, main.tree_cache.trees', hist.tree_calls)
          /\ EvictsLeastRecent(main.cache.blobs, main.cache.blobs', hist.calls)]_vars

\* a tree was loaded, then another, the first was hit and a third load evicted
\* the second
C34_Witness ==
    /\ main.tree_cache.capacity = 2
    /\ Len(hist.tree_calls) = 4
    /\ hist.tree_calls[1] = hist.tree_calls[3]
    /\ DOMAIN main.tree_cache.trees = {hist.tree_calls[1], hist.tree_calls[4]}
    /\ hist.tree_calls[2] \notin DOMAIN main.tree_cache.trees

\* the same for the blob cache: the blob that was hit stays, the other is evicted
BlobHitThenEvicted ==
    /\ Len(hist.calls) = 4
    /\ hist.calls[1] = hist.calls[3]
    /\ hist.calls[2] # hist.calls[1]
    /\ DOMAIN main.cache.blobs = {hist.calls[1], hist.calls[4]}

BlobCacheFullAfterEviction ==
    /\ main.pc = "idle"
    /\ main.result = "miss"
    /\ main.cache.size = main.cache.capacity
    /\ Cardinality(Range(hist.calls)) > Cardinality(DOMAIN main.cache.blobs)
    /\ hist.evictions > 0

(***************************************************************************)
(* Claims about errors of the inputs of a NodeDiffStreamer.                *)
(***************************************************************************)
\* the head of an input is an error
HeadIsError(head) == head # <<>> /\ ~head[1].ok

\* the items an input has yet to give to the merge: its head and what follows
Remaining(head, rest) == head \o rest

ErrorsIn(stream) == Cardinality({i \in DOMAIN stream : ~stream[i].ok})

\* C37: a step of a NodeDiffStreamer that finds an error at the head of an
\* input emits one error item and takes one item, the error, from one input
\* (from prev when both heads are errors) and nothing from the other input;
\* the run goes on until both inputs are exhausted, and then it has emitted one
\* error item for every error of the inputs and an item for every path
C37_ErrorTakesOneItem ==
    /\ [][(HeadIsError(main.streamer.head_prev) \/ HeadIsError(main.streamer.head_next)) =>
              /\ hist.emitted' = Append(hist.emitted, DiffError)
              /\ IF HeadIsError(main.streamer.head_prev)
                 THEN /\ Remaining(main.streamer.head_prev', main.streamer.prev')
                             = main.streamer.prev
                      /\ main.streamer.head_next' = main.streamer.head_next
                      /\ main.streamer.next' = main.streamer.next
                 ELSE /\ Remaining(main.streamer.head_next', main.streamer.next')
                             = main.streamer.next
                      /\ main.streamer.head_prev' = main.streamer.head_prev
                      /\ main.streamer.prev' = main.streamer.prev]_vars
    /\ [](main.pc = "done" =>
              /\ Remaining(main.streamer.head_prev, main.streamer.prev) = <<>>
              /\ Remaining(main.streamer.head_next, main.streamer.next) = <<>>
              /\ ErrorsIn(hist.emitted) = ErrorsIn(hist.prev) + ErrorsIn(hist.next)
              /\ \A path \in OkPaths(hist.prev) \cup OkPaths(hist.next) :
                     \E i \in DOMAIN hist.emitted :
                         hist.emitted[i].ok /\ hist.emitted[i].path = path)

\* a finished run whose inputs began with an error in prev and an item in
\* next, and had an item after the error
C37_Witness ==
    /\ main.pc = "done"
    /\ Len(hist.prev) = 2
    /\ ~hist.prev[1].ok
    /\ hist.prev[2].ok
    /\ hist.next # <<>>
    /\ hist.next[1].ok
    /\ ErrorsIn(hist.emitted) = 1 + ErrorsIn(hist.next)

(***************************************************************************)
(* Claims about the first code base.                                       *)
(***************************************************************************)
\* the source directory at the backup that made the snapshot
SourceAt(snapshot_id) == hist.sources[snapshot_id + 1]

HasZeroChunk(content) ==
    \E i \in DOMAIN read_chunks(content, get_chunk_size(Len(content))) :
        all_zero(read_chunks(content, get_chunk_size(Len(content)))[i])

\* C38: after any sequence of backups of a source directory that changes
\* between them, restore_snapshot of snapshot k succeeds and writes exactly
\* the files the source directory had at backup k, with the content they had
\* then; a file removed before backup k is absent
C38_RestoreIsSourceAtBackup ==
    (hist.restored.some /\ hist.restored.id < Len(hist.sources)) =>
        /\ hist.restored.ok
        /\ fs.dst = SourceAt(hist.restored.id)

\* the restore of the first snapshot of a source directory without a chunk of
\* zeros is the source directory
RestoreOfFirstSnapshot ==
    (/\ hist.restored.some
     /\ hist.restored.id = 0
     /\ hist.sources # <<>>
     /\ \A name \in DOMAIN SourceAt(0) : ~HasZeroChunk(SourceAt(0)[name])) =>
        /\ hist.restored.ok
        /\ fs.dst = SourceAt(0)

\* a file that was removed before backup k is in the restore of snapshot k
RemovedFileRestored ==
    /\ hist.restored.some
    /\ hist.restored.id < Len(hist.sources)
    /\ \E name \in DOMAIN fs.dst : name \notin DOMAIN SourceAt(hist.restored.id)

\* a file that backup k found unchanged is not in the restore of snapshot k
UnchangedFileMissing ==
    /\ hist.restored.some
    /\ hist.restored.id < Len(hist.sources)
    /\ \E name \in DOMAIN SourceAt(hist.restored.id) : name \notin DOMAIN fs.dst

\* C39: the chunk list store_file returns for a file names every chunk of the
\* file in file order, the chunks filled with zeros included, and restore_file
\* of that list writes the content of the file
C39_StoreRestoreRoundTrip ==
    \A name \in DOMAIN hist.stored :
        LET content == Last(hist.sources)[name]
            chunks == read_chunks(content, get_chunk_size(Len(content)))
        IN /\ hist.stored[name] = [i \in DOMAIN chunks |-> calculate_hash(chunks[i])]
           /\ restore_file([path |-> name, delta |-> DeltaChunks(hist.stored[name])],
                           backend.data) = [ok |-> TRUE, content |-> content]

\* the round trip of a file without a chunk of zeros
RoundTripWithoutZeroChunk ==
    \A name \in DOMAIN hist.stored :
        ~HasZeroChunk(Last(hist.sources)[name]) =>
            restore_file([path |-> name, delta |-> DeltaChunks(hist.stored[name])],
                         backend.data) = [ok |-> TRUE, content |-> Last(hist.sources)[name]]

\* C40: the list of snapshots begins with a Full snapshot and has no more
\* than max_consecutive_deltas Delta snapshots in a row, so the delta
\* segment of every snapshot has at most max_consecutive_deltas + 1 elements
C40_DeltaRunsBounded ==
    /\ main.refs # <<>> => main.refs[1].kind = "Full"
    /\ \A n \in 1..Len(main.refs) :
           trailing_deltas(SubSeq(main.refs, 1, n)) <= main.config.max_consecutive_deltas
    /\ \A i \in DOMAIN main.refs :
           /\ get_delta_segment(main.refs, main.refs[i].id) # <<>>
           /\ Len(get_delta_segment(main.refs, main.refs[i].id)[1])
                  <= main.config.max_consecutive_deltas + 1

\* a Full snapshot that follows max_consecutive_deltas Delta snapshots
C40_Witness ==
    /\ main.config.max_consecutive_deltas = MaxConsecutiveDeltas
    /\ Len(main.refs) = MaxConsecutiveDeltas + 2
    /\ Last(main.refs).kind = "Full"
    /\ main.refs[Len(main.refs) - 1].kind = "Delta"

====
